---- MODULE Spec2Model ----
(***************************************************************************)
(* ModuleX: credential vault, OAuth state tokens and the bounded tool      *)
(* execution dispatcher.                                                   *)
(*                                                                         *)
(*   app/services/tool_service.py   ToolService.execute_tool               *)
(*   app/services/auth_service.py   AuthService (state tokens, records)    *)
(*   app/core/encryption.py         encrypt_credentials/decrypt_credentials*)
(*                                                                         *)
(* Every coroutine is cut at its await points: one action is the code that *)
(* runs between two awaits of one call, so concurrent calls interleave     *)
(* exactly where the event loop can switch tasks.                          *)
(***************************************************************************)
EXTENDS Integers, FiniteSets, Sequences, TLC

(***************************************************************************)
(* Bounds of the model                                                     *)
(***************************************************************************)
\* number of execute_tool calls made on the one ToolService instance
NumCalls == 3
\* largest capacity of the execution semaphore a deployment is given
MaxCapacity == 1
\* largest queue-depth limit a deployment is given
MaxQueueLimit == 1

\* number of handle_callback requests the server receives
NumCallbacks == 2
\* number of state tokens generate_auth_url hands out
MaxTokens == 1
\* the clock advances in steps of ClockStep seconds, up to MaxTime
ClockStep == 450
MaxTime == 900

\* number of POST /tools/{tool_name}/execute requests the API serves
NumRequests == 2
\* number of execute_tool calls followed to their end under fair scheduling
NumFairCalls == 2
\* number of concurrent requests that write one credential record
NumWriters == 2

Calls == 1..NumCalls
Callbacks == 1..NumCallbacks
Requests == 1..NumRequests
FairCalls == 1..NumFairCalls
Writers == 1..NumWriters

(***************************************************************************)
(* Program constants                                                       *)
(***************************************************************************)
\* LoadConfig.request_timeout of the default ("medium") configuration
request_timeout == 30
\* a state store that keeps the state for an hour
oauth_state_ttl_Hour == 60 * 60

\* AuthService.oauth_state_ttl
oauth_state_ttl == 600

Users == {"u1", "u2"}
\* tools with an OAuth handler or an integration script that the model uses
Tools == {"github", "slack"}
\* tools that have integrations/<tool>/main.py
ScriptTools == {"github", "reddit", "gmail", "gdrive", "n8n", "r2r", "nellis-auction"}
\* tools registered in OAuthHandlerFactory._handlers
OAuthTools == {"github", "reddit", "google", "slack"}
Actions == {"list_repositories"}
\* the authorization code of callback request c: every redirect carries the
\* code the provider minted for it
CodeOf(c) == <<"code", c>>

(***************************************************************************)
(* Credential payloads: a dict is a set of entries [k, t, v] with unique   *)
(* keys; t is the JSON type of the value.                                  *)
(***************************************************************************)
Entry(k, v) == [k |-> k, t |-> "str", v |-> v]
Keys(d) == {e.k : e \in d}
Has(d, k) == k \in Keys(d)
DictSet(d, k, v) == {e \in d : e.k # k} \cup {Entry(k, v)}
EmptyDict == {}

TokenPayload(tok) == {Entry("access_token", tok)}
ErrorEnvelope == {Entry("error", "bad_verification_code")}

\* auth_service.py lines 36-40: what register_manual_auth stores for the
\* caller's credentials
ManualCredentials(d) ==
    DictSet(DictSet(d, "auth_type", "manual"), "registered_at", "2026-01-01T00:00:00")

\* the envelope check with the second test inverted
IsErrorEnvelope_RequiresToken(d) == Has(d, "error") /\ Has(d, "access_token")

\* "error" in credentials and "access_token" not in credentials
IsErrorEnvelope(d) == Has(d, "error") /\ ~Has(d, "access_token")

(***************************************************************************)
(* Encryption provider: Fernet under a key derived from the server secret  *)
(* and the user id.  A ciphertext opens only under the key that made it.   *)
(***************************************************************************)
ServerSecret == "secret-A"

\* a key derivation that leaves the user id out
_generate_key_NoUser(secret, user_id) == <<secret, 0>>

_generate_key(secret, user_id) == <<secret, user_id>>

\* json.dumps / json.loads on a dict of scalars: a string is written between
\* quotes, a number and null as they are
JsonDumps(d) ==
    {<<e.k, CASE e.t = "str" -> <<"\"", e.v, "\"">>
              [] e.t = "null" -> <<"null">>
              [] OTHER -> <<e.v>>>> : e \in d}
JsonLoads(text) ==
    {[k |-> m[1],
      t |-> IF Len(m[2]) = 3 THEN "str" ELSE IF m[2] = <<"null">> THEN "null" ELSE "int",
      v |-> IF Len(m[2]) = 3 THEN m[2][2] ELSE IF m[2] = <<"null">> THEN "" ELSE m[2][1]] :
       m \in text}

\* an encryption under a key that leaves the user id out
encrypt_credentials_SharedKey(user_id, credentials) ==
    [key |-> _generate_key(ServerSecret, 0), plaintext |-> JsonDumps(credentials)]

encrypt_credentials(user_id, credentials) ==
    [key |-> _generate_key(ServerSecret, user_id), plaintext |-> JsonDumps(credentials)]

\* a decryption that opens a ciphertext under any key
decrypt_credentials_AnyKey(user_id, encrypted_data) ==
    [ok |-> TRUE, value |-> JsonLoads(encrypted_data.plaintext)]

\* [ok |-> FALSE] stands for the InvalidToken exception of Fernet.decrypt
decrypt_credentials(user_id, encrypted_data) ==
    IF encrypted_data.key = _generate_key(ServerSecret, user_id)
    THEN [ok |-> TRUE, value |-> JsonLoads(encrypted_data.plaintext)]
    ELSE [ok |-> FALSE, value |-> EmptyDict]

VARIABLES
    \* ---- relational store ----
    users,                      \* rows of table users: [id, external_id]
    user_tool_auths,            \* rows of table user_tool_auths
    \* ---- ToolService instance ----
    max_concurrent_executions,  \* capacity C of _execution_semaphore
    max_queue_size,             \* load_config.max_queue_size (Q)
    sem_value,                  \* free slots of _execution_semaphore
    active_executions,          \* _active_executions
    queued_executions,          \* _queued_executions
    \* ---- execute_tool calls ----
    pc,                         \* the await each call is suspended at
    req,                        \* arguments of each call
    credentials,                \* local variable credentials of each call
    outcome,                    \* what each call returned or raised
    child,                      \* the child process each call started
    queue_decrements,           \* times each call ran _queued_executions -= 1
    \* ---- OAuth state store (Redis) and handle_callback calls ----
    now,                        \* seconds since the server started
    issued,                     \* number of state tokens generated so far
    redis,                      \* oauth_state:<token> -> state_data, with expiry
    cb_pc,                      \* the await each handle_callback is suspended at
    cb_req,                     \* arguments of each handle_callback
    cb_local,                   \* locals user_id and token_data of each call
    cb_result,                  \* what each handle_callback returned or raised
    \* ---- tools API: one ToolService per request ----
    api,                        \* per request: its ToolService and its call
    \* ---- credential store API ----
    store_call,                 \* the last AuthService call served and its return
    writers,                    \* concurrent writers of one record, cut at awaits
    \* ---- process environments ----
    os_environ,                 \* os.environ of the server process
    child_env,                  \* env= handed to the child of each call
    \* ---- helper functions ----
    fn_call                     \* the last helper function applied and its result

storeVars == <<users, user_tool_auths>>
serviceVars == <<max_concurrent_executions, max_queue_size, sem_value,
                 active_executions, queued_executions>>
callVars == <<pc, req, credentials, outcome, child, queue_decrements>>
oauthVars == <<now, issued, redis, cb_pc, cb_req, cb_local, cb_result>>
apiVars == <<api>>
opVars == <<store_call, writers>>
envVars == <<os_environ, child_env>>
fnVars == <<fn_call>>
vars == <<storeVars, serviceVars, callVars, oauthVars, apiVars, opVars, envVars, fnVars>>

(***************************************************************************)
(* Credential store (AuthService)                                          *)
(***************************************************************************)
UserRow(id, external_id) == [id |-> id, external_id |-> external_id]

AuthRow(id, user_id, tool_name, encrypted, authenticated, active, disabled, last_auth_at) ==
    [id |-> id, user_id |-> user_id, tool_name |-> tool_name,
     encrypted_credentials |-> encrypted, is_authenticated |-> authenticated,
     is_active |-> active, disabled_actions |-> disabled, last_auth_at |-> last_auth_at]

\* Column(UUID, default=uuid.uuid4): an id no row of the table has
NewId(rows) ==
    CHOOSE n \in 1..(Cardinality(rows) + 1) :
        /\ n \notin {r.id : r \in rows}
        /\ \A m \in 1..(n - 1) : m \in {r.id : r \in rows}

\* select(User).where(User.external_id == external_id)
UsersWith(us, external_id) == {u \in us : u.external_id = external_id}

\* get_or_create_user: the users table after the call
UsersAfterGetOrCreate(us, external_id) ==
    IF UsersWith(us, external_id) # {} THEN us
    ELSE us \cup {UserRow(Cardinality(us) + 1, external_id)}

\* get_or_create_user: the row the call returns
GetOrCreateUser(us, external_id) ==
    CHOOSE u \in UsersAfterGetOrCreate(us, external_id) : u.external_id = external_id

\* select(UserToolAuth).where(user_id == ..., tool_name == ...)
AuthRowsOf(rows, user_id, tool_name) ==
    {r \in rows : r.user_id = user_id /\ r.tool_name = tool_name}

\* an upsert whose update keeps the old last_auth_at
SaveCredentials_KeepsStamp(rows, user, tool_name, token_data, t) ==
    LET found == AuthRowsOf(rows, user.id, tool_name)
        enc == encrypt_credentials(user.id, token_data)
    IN  IF found # {}
        THEN (rows \ found) \cup
             {[r EXCEPT !.encrypted_credentials = enc, !.is_authenticated = TRUE] : r \in found}
        ELSE rows \cup {AuthRow(NewId(rows), user.id, tool_name, enc, TRUE, TRUE, <<>>, t)}

\* _save_credentials at time t: the user_tool_auths table after the upsert
\* an upsert whose update switches the record on and clears its disabled actions
SaveCredentials_Reactivates(rows, user, tool_name, token_data, t) ==
    LET found == AuthRowsOf(rows, user.id, tool_name)
        enc == encrypt_credentials(user.id, token_data)
    IN  IF found # {}
        THEN (rows \ found) \cup
             {[r EXCEPT !.encrypted_credentials = enc, !.is_authenticated = TRUE,
                        !.last_auth_at = t, !.is_active = TRUE,
                        !.disabled_actions = <<>>] : r \in found}
        ELSE rows \cup {AuthRow(NewId(rows), user.id, tool_name, enc, TRUE, TRUE, <<>>, t)}

SaveCredentials(rows, user, tool_name, token_data, t) ==
    LET found == AuthRowsOf(rows, user.id, tool_name)
        enc == encrypt_credentials(user.id, token_data)
    IN  IF found # {}
        THEN (rows \ found) \cup
             {[r EXCEPT !.encrypted_credentials = enc, !.is_authenticated = TRUE,
                        !.last_auth_at = t] : r \in found}
        ELSE rows \cup {AuthRow(NewId(rows), user.id, tool_name, enc, TRUE, TRUE, <<>>, t)}

\* a lookup that filters on is_authenticated only
GetUserCredentials_IgnoresActive(us, rows, external_id, tool_name) ==
    LET user == GetOrCreateUser(us, external_id)
        found == {r \in AuthRowsOf(rows, user.id, tool_name) : r.is_authenticated}
    IN  IF found = {} THEN [ok |-> FALSE, value |-> EmptyDict]
        ELSE LET auth_record == CHOOSE r \in found : TRUE
             IN  decrypt_credentials(user.id, auth_record.encrypted_credentials)

\* get_user_credentials: None is [ok |-> FALSE]
GetUserCredentials(us, rows, external_id, tool_name) ==
    LET user == GetOrCreateUser(us, external_id)
        found == {r \in AuthRowsOf(rows, user.id, tool_name) :
                     r.is_authenticated /\ r.is_active}
    IN  IF found = {} THEN [ok |-> FALSE, value |-> EmptyDict]
        ELSE LET auth_record == CHOOSE r \in found : TRUE
             IN  decrypt_credentials(user.id, auth_record.encrypted_credentials)

\* a cleanup that deletes the record it finds invalid
CleanupInvalidCredentials_Deletes(us, rows, external_id, tool_name) ==
    LET user == GetOrCreateUser(us, external_id)
        found == AuthRowsOf(rows, user.id, tool_name)
    IN  IF found = {} THEN rows
        ELSE LET auth_record == CHOOSE r \in found : TRUE
                 dec == decrypt_credentials(user.id, auth_record.encrypted_credentials)
             IN  IF dec.ok /\ IsErrorEnvelope(dec.value)
                 THEN rows \ {auth_record}
                 ELSE rows

\* cleanup_invalid_credentials: the user_tool_auths table after the call
CleanupInvalidCredentials(us, rows, external_id, tool_name) ==
    LET user == GetOrCreateUser(us, external_id)
        found == AuthRowsOf(rows, user.id, tool_name)
    IN  IF found = {} THEN rows
        ELSE LET auth_record == CHOOSE r \in found : TRUE
                 dec == decrypt_credentials(user.id, auth_record.encrypted_credentials)
             IN  IF dec.ok /\ IsErrorEnvelope(dec.value)
                 THEN (rows \ {auth_record}) \cup
                      {[auth_record EXCEPT !.is_authenticated = FALSE]}
                 ELSE rows

(***************************************************************************)
(* Results of execute_tool                                                 *)
(***************************************************************************)
NoRequest == [user_id |-> "", tool_name |-> "", action |-> ""]
NoOutcome == [kind |-> "none", success |-> FALSE, error |-> <<>>, result |-> <<>>,
              tool_name |-> "", action |-> ""]

\* a returned mapping {"success", "error" | "result", "tool_name", "action"}
Returned(r, success, error, result) ==
    [kind |-> "returned", success |-> success, error |-> error, result |-> result,
     tool_name |-> r.tool_name, action |-> r.action]

\* an exception that leaves execute_tool
Raised(r, error) ==
    [kind |-> "raised", success |-> FALSE, error |-> error, result |-> <<>>,
     tool_name |-> r.tool_name, action |-> r.action]

ServerBusy(r) ==
    Returned(r, FALSE, <<"Server busy. Queue limit exceeded", max_queue_size>>, <<>>)
TimedOut(r) ==
    Returned(r, FALSE, <<"Tool execution timed out after", request_timeout>>, <<>>)

(***************************************************************************)
(* Child processes: what a tool script leaves behind when it exits         *)
(***************************************************************************)
JsonTexts == {"{\"ok\": true}"}
ChildExit(returncode, stdout, stderr) ==
    [returncode |-> returncode, stdout |-> stdout, stderr |-> stderr]
ChildExits ==
    { ChildExit(0, "{\"ok\": true}", ""), ChildExit(0, "done", ""),
      ChildExit(1, "", "Traceback"), ChildExit(1, "usage", "") }

\* output bytes that are not UTF-8; bytes.decode() raises UnicodeDecodeError
BinaryOutput == "\\xff\\xfe"
Decodes(bytes) == bytes # BinaryOutput

\* lines 114-138 and 147-153: the mapping built from a finished child; an
\* exception of decode() is caught by "except Exception"
ResultOf(r, ex) ==
    IF ex.returncode = 0
    THEN IF ~Decodes(ex.stdout)
         THEN Returned(r, FALSE, <<"UnicodeDecodeError">>, <<>>)
         ELSE IF ex.stdout \in JsonTexts
         THEN Returned(r, TRUE, <<>>, <<"json", ex.stdout>>)
         ELSE Returned(r, TRUE, <<>>, <<"text", ex.stdout>>)
    ELSE IF ~Decodes(ex.stderr) \/ (ex.stderr = "" /\ ~Decodes(ex.stdout))
         THEN Returned(r, FALSE, <<"UnicodeDecodeError">>, <<>>)
         ELSE Returned(r, FALSE, <<IF ex.stderr # "" THEN ex.stderr ELSE ex.stdout>>, <<>>)

(***************************************************************************)
(* Environment of a tool's child process                                   *)
(***************************************************************************)
\* os.environ of the server process when it starts
ServerEnviron == {Entry("PATH", "/usr/bin")}

\* a dict value that is not a string: JSON null, or a number
Field(k, t, v) == [k |-> k, t |-> t, v |-> v]

\* key.upper() on the credential keys the model uses
Upper(k) ==
    CASE k = "access_token" -> "ACCESS_TOKEN"
      [] k = "refresh_token" -> "REFRESH_TOKEN"
      [] k = "api_key" -> "API_KEY"
      [] k = "Api_Key" -> "API_KEY"
      [] k = "auth_type" -> "AUTH_TYPE"
      [] k = "registered_at" -> "REGISTERED_AT"
      [] OTHER -> k

\* _get_excluded_credential_keys
\* an exclusion list that holds no key
ExcludedCredentialKeys_None == {"auth_type", "registered_at"} \ {"auth_type", "registered_at"}

ExcludedCredentialKeys == {"auth_type", "registered_at"}

\* "if access_token:": None, "" and 0 count as false
Truthy(e) == e.t # "null" /\ e.v # "" /\ ~(e.t = "int" /\ e.v = "0")

\* dict.update(u) on d
DictUpdate(d, u) == {e \in d : e.k \notin Keys(u)} \cup u

\* _prepare_tool_env, lines 166-207: the maps it can return.  Fields whose
\* upper-cased names coincide overwrite each other in the iteration order of
\* the dict, so either value can be the one that stays.
ToolEnvs(creds) ==
    LET tokens == {Field(Upper(e.k), e.t, e.v) :
                      e \in {f \in creds : f.k \in {"access_token", "refresh_token"}
                                             /\ Truthy(f)}}
        fields == {e \in creds : e.t = "str" /\ e.k \notin ExcludedCredentialKeys}
        names == {Upper(e.k) : e \in fields}
        named(n) == {Field(n, e.t, e.v) : e \in {f \in fields : Upper(f.k) = n}}
        all == UNION {named(n) : n \in names}
    IN  {DictUpdate(tokens, comp) :
            comp \in {c \in SUBSET all : \A n \in names : Cardinality(c \cap named(n)) = 1}}

\* a call that updates os.environ itself and hands it to the child
EnvironAfterCall_Shared(environ, env) == DictUpdate(environ, env)

\* line 89: env = os.environ.copy() leaves os.environ as it is
EnvironAfterCall(environ, env) == environ

\* lines 89-90: the copy of os.environ, updated with the credential variables
ChildEnviron(environ, env) == DictUpdate(environ, env)

(***************************************************************************)
(* ToolService.execute_tool                                                *)
(***************************************************************************)
\* the busy check written with > instead of >=
QueueFull_OffByOne == queued_executions > max_queue_size

\* line 52: self._queued_executions >= self.load_config.max_queue_size
QueueFull == queued_executions >= max_queue_size

\* a semaphore that still lets a caller in when no slot is free
CanAcquire_OffByOne == sem_value >= 0

\* line 83: the semaphore lets a caller in while it has a free slot
CanAcquire == sem_value > 0

\* lines 156-159: the outer finally, run by call p when it leaves
LeaveQueue(p) ==
    /\ queued_executions' = IF queued_executions > 0 THEN queued_executions - 1
                            ELSE queued_executions
    /\ queue_decrements' = [queue_decrements EXCEPT ![p] =
                               @ + IF queued_executions > 0 THEN 1 ELSE 0]

\* lines 83-85: slot taken, then the two counters move
TakeSlot(p) ==
    /\ sem_value' = sem_value - 1
    /\ queued_executions' = queued_executions - 1
    /\ active_executions' = active_executions + 1
    /\ queue_decrements' = [queue_decrements EXCEPT ![p] = @ + 1]

\* an exit that releases the semaphore without the inner finally
ReleaseSlot_KeepsActive ==
    /\ active_executions' = active_executions
    /\ sem_value' = sem_value + 1

\* an exit that runs the inner finally and never releases the semaphore
ReleaseSlot_KeepsSlot ==
    /\ active_executions' = active_executions - 1
    /\ sem_value' = sem_value

\* lines 154-155 and the exit of "async with": inner finally, then release
ReleaseSlot ==
    /\ active_executions' = active_executions - 1
    /\ sem_value' = sem_value + 1

\* a return from inside the "async with" block: both finally blocks run
Finish(p, res) ==
    /\ pc' = [pc EXCEPT ![p] = "done"]
    /\ outcome' = [outcome EXCEPT ![p] = res]
    /\ ReleaseSlot
    /\ LeaveQueue(p)

\* lines 46-61: the busy check and the admission, up to the first await
Enter(p, user_id, tool_name, action) ==
    /\ pc[p] = "idle"
    /\ \A q \in Calls : q < p => pc[q] # "idle"
    /\ LET r == [user_id |-> user_id, tool_name |-> tool_name, action |-> action]
       IN  /\ req' = [req EXCEPT ![p] = r]
           /\ IF QueueFull
              THEN /\ pc' = [pc EXCEPT ![p] = "done"]
                   /\ outcome' = [outcome EXCEPT ![p] = ServerBusy(r)]
                   /\ UNCHANGED queued_executions
              ELSE /\ pc' = [pc EXCEPT ![p] = "get_user_credentials"]
                   /\ queued_executions' = queued_executions + 1
                   /\ UNCHANGED outcome
    /\ UNCHANGED <<apiVars, opVars, envVars, fnVars, oauthVars, storeVars, max_concurrent_executions, max_queue_size, sem_value,
                   active_executions, credentials, child, queue_decrements>>

\* not credentials: None or an empty dict
NotCredentials(c) == ~c.ok \/ c.value = EmptyDict

\* lines 65-85: get_user_credentials returns; the checks up to the next await
ResolveCredentials(p) ==
    /\ pc[p] = "get_user_credentials"
    /\ LET r == req[p]
           got == GetUserCredentials(users, user_tool_auths, r.user_id, r.tool_name)
       IN  /\ users' = UsersAfterGetOrCreate(users, r.user_id)
           /\ credentials' = [credentials EXCEPT ![p] = got]
           /\ IF NotCredentials(got) \/ IsErrorEnvelope(got.value)
              THEN /\ pc' = [pc EXCEPT ![p] = "cleanup_invalid_credentials"]
                   /\ UNCHANGED <<sem_value, active_executions, queued_executions,
                                  outcome, queue_decrements>>
              ELSE IF r.tool_name \notin ScriptTools
              THEN /\ pc' = [pc EXCEPT ![p] = "done"]
                   /\ outcome' = [outcome EXCEPT ![p] =
                                     Raised(r, <<"Tool script not found", r.tool_name>>)]
                   /\ LeaveQueue(p)
                   /\ UNCHANGED <<sem_value, active_executions>>
              ELSE IF CanAcquire
              THEN /\ pc' = [pc EXCEPT ![p] = "create_subprocess_exec"]
                   /\ TakeSlot(p)
                   /\ UNCHANGED outcome
              ELSE /\ pc' = [pc EXCEPT ![p] = "acquire"]
                   /\ UNCHANGED <<sem_value, active_executions, queued_executions,
                                  outcome, queue_decrements>>
    /\ UNCHANGED <<apiVars, opVars, envVars, fnVars, oauthVars, user_tool_auths, max_concurrent_executions, max_queue_size, req, child>>

\* lines 68-69 and 74-75: cleanup returns, ValueError leaves through line 156
CleanupAndRaise(p) ==
    /\ pc[p] = "cleanup_invalid_credentials"
    /\ LET r == req[p]
       IN  /\ users' = UsersAfterGetOrCreate(users, r.user_id)
           /\ user_tool_auths' =
                  CleanupInvalidCredentials(users, user_tool_auths, r.user_id, r.tool_name)
           /\ outcome' = [outcome EXCEPT ![p] =
                  IF NotCredentials(credentials[p])
                  THEN Raised(r, <<"not authenticated", r.user_id, r.tool_name>>)
                  ELSE Raised(r, <<"Invalid authentication", r.tool_name>>)]
    /\ pc' = [pc EXCEPT ![p] = "done"]
    /\ LeaveQueue(p)
    /\ UNCHANGED <<apiVars, opVars, envVars, fnVars, oauthVars, max_concurrent_executions, max_queue_size, sem_value,
                   active_executions, req, credentials, child>>

\* line 83: a call that waited for the semaphore is given a slot
Acquire(p) ==
    /\ pc[p] = "acquire"
    /\ CanAcquire
    /\ pc' = [pc EXCEPT ![p] = "create_subprocess_exec"]
    /\ TakeSlot(p)
    /\ UNCHANGED <<apiVars, opVars, envVars, fnVars, oauthVars, storeVars, max_concurrent_executions, max_queue_size,
                   req, credentials, outcome, child>>

\* lines 101-107: the child process is started
Spawn(p) ==
    /\ pc[p] = "create_subprocess_exec"
    /\ pc' = [pc EXCEPT ![p] = "communicate"]
    /\ child' = [child EXCEPT ![p] = "running"]
    /\ \E env \in ToolEnvs(credentials[p].value) :
          /\ child_env' = [child_env EXCEPT ![p] = ChildEnviron(os_environ, env)]
          /\ os_environ' = EnvironAfterCall(os_environ, env)
    /\ UNCHANGED <<apiVars, opVars, fnVars, oauthVars, storeVars, serviceVars, req, credentials,
                   outcome, queue_decrements>>

\* lines 101 and 147-153: create_subprocess_exec raises OSError
SpawnFails(p) ==
    /\ pc[p] = "create_subprocess_exec"
    /\ Finish(p, Returned(req[p], FALSE, <<"OSError">>, <<>>))
    /\ UNCHANGED <<apiVars, opVars, envVars, fnVars, oauthVars, storeVars, max_concurrent_executions, max_queue_size,
                   req, credentials, child>>

\* lines 109-138: the child exits within the timeout
ChildDone(p, ex) ==
    /\ pc[p] = "communicate"
    /\ child' = [child EXCEPT ![p] = "exited"]
    /\ Finish(p, ResultOf(req[p], ex))
    /\ UNCHANGED <<apiVars, opVars, envVars, fnVars, oauthVars, storeVars, max_concurrent_executions, max_queue_size,
                   req, credentials>>

\* a timeout handler that returns without the inner finally and the release
Timeout_KeepsSlot(p) ==
    /\ pc[p] = "communicate"
    /\ pc' = [pc EXCEPT ![p] = "done"]
    /\ outcome' = [outcome EXCEPT ![p] = TimedOut(req[p])]
    /\ LeaveQueue(p)
    /\ UNCHANGED <<apiVars, opVars, envVars, fnVars, oauthVars, storeVars, max_concurrent_executions, max_queue_size,
                   sem_value, active_executions, req, credentials, child>>

\* lines 109-112 and 140-146: wait_for gives up after request_timeout; the
\* handler returns without touching the child, which keeps running
Timeout(p) ==
    /\ pc[p] = "communicate"
    /\ Finish(p, TimedOut(req[p]))
    /\ UNCHANGED <<apiVars, opVars, envVars, fnVars, oauthVars, storeVars, max_concurrent_executions, max_queue_size,
                   req, credentials, child>>

\* a child left behind by a timed-out call exits by itself
AbandonedChildExits(p) ==
    /\ pc[p] = "done"
    /\ child[p] = "running"
    /\ child' = [child EXCEPT ![p] = "exited"]
    /\ UNCHANGED <<apiVars, opVars, envVars, fnVars, oauthVars, storeVars, serviceVars, pc, req, credentials, outcome, queue_decrements>>

(***************************************************************************)
(* OAuth state tokens (Redis) and AuthService.handle_callback              *)
(***************************************************************************)
\* secrets.token_urlsafe(32): the n-th token generated is token n, a value no
\* earlier call returned; token 0 is a value the server never generated
ForgedToken == 0
StateTokens == 0..MaxTokens

NoStateData == [present |-> FALSE, user_id |-> "", tool_name |-> "", expire_at |-> 0]

\* redis.setex(key, ttl, value) at time t
RedisSetex(store, key, ttl, value, t) ==
    [store EXCEPT ![key] = [present |-> TRUE, user_id |-> value.user_id,
                            tool_name |-> value.tool_name, expire_at |-> t + ttl]]

\* redis.get(key) at time t: an expired key is gone
RedisGet(store, key, t) ==
    IF store[key].present /\ t < store[key].expire_at THEN store[key] ELSE NoStateData

\* redis.delete(key)
RedisDelete(store, key) == [store EXCEPT ![key] = NoStateData]

NoCallback == [tool_name |-> "", code |-> <<>>, state |-> ForgedToken]
NoLocal == [user_id |-> "", token_data |-> EmptyDict]
NoResult == [kind |-> "none", error |-> ""]
CallbackReturnedTrue == [kind |-> "returned", error |-> ""]
CallbackRaised(msg) == [kind |-> "raised", error |-> msg]

\* what the provider's token endpoint may answer to the POST
ProviderResponses ==
    { TokenPayload("tok3"), ErrorEnvelope, {Entry("token_type", "bearer")} }

\* lines 70-100: generate_auth_url
GenerateAuthUrl(user_id, tool_name) ==
    /\ tool_name \in OAuthTools
    /\ issued < MaxTokens
    /\ issued' = issued + 1
    /\ redis' = RedisSetex(redis, issued + 1, oauth_state_ttl,
                           [user_id |-> user_id, tool_name |-> tool_name], now)
    /\ UNCHANGED <<storeVars, serviceVars, callVars, apiVars, opVars, envVars, fnVars, now, cb_pc, cb_req, cb_local, cb_result>>

\* lines 102-108: a callback request arrives and awaits redis.get
CallbackArrives(c, tool_name, code, state) ==
    /\ cb_pc[c] = "idle"
    /\ \A d \in Callbacks : d < c => cb_pc[d] # "idle"
    /\ state \in 0..issued
    /\ cb_pc' = [cb_pc EXCEPT ![c] = "redis_get"]
    /\ cb_req' = [cb_req EXCEPT ![c] = [tool_name |-> tool_name, code |-> code, state |-> state]]
    /\ UNCHANGED <<storeVars, serviceVars, callVars, apiVars, opVars, envVars, fnVars, now, issued, redis, cb_local, cb_result>>

\* a check that lets every tool name through
ToolMatches_Always(state_data, tool_name) == TRUE

\* line 119: state_data["tool_name"] != tool_name, negated
ToolMatches(state_data, tool_name) == state_data.tool_name = tool_name

\* lines 108-128: redis.get returns; the state is validated, not deleted
StateRead(c) ==
    /\ cb_pc[c] = "redis_get"
    /\ LET state_data == RedisGet(redis, cb_req[c].state, now)
       IN  IF ~state_data.present
           THEN /\ cb_pc' = [cb_pc EXCEPT ![c] = "done"]
                /\ cb_result' = [cb_result EXCEPT ![c] = CallbackRaised("Invalid state")]
                /\ UNCHANGED cb_local
           ELSE IF ~ToolMatches(state_data, cb_req[c].tool_name)
           THEN /\ cb_pc' = [cb_pc EXCEPT ![c] = "done"]
                /\ cb_result' = [cb_result EXCEPT ![c] = CallbackRaised("Tool name mismatch")]
                /\ UNCHANGED cb_local
           ELSE /\ cb_pc' = [cb_pc EXCEPT ![c] = "exchange_code_for_token"]
                /\ cb_local' = [cb_local EXCEPT ![c].user_id = state_data.user_id]
                /\ UNCHANGED cb_result
    /\ UNCHANGED <<storeVars, serviceVars, callVars, apiVars, opVars, envVars, fnVars, now, issued, redis, cb_req>>

\* a handler that takes whatever the provider answers
TokenResponseAccepted_Any(token_data) == TRUE

\* a handler that only looks for the error key
TokenResponseAccepted_ErrorOnly(token_data) == ~Has(token_data, "error")

\* base_oauth_handler.py lines 73-87: process_token_response
TokenResponseAccepted(token_data) ==
    ~Has(token_data, "error") /\ Has(token_data, "access_token")

\* line 128: the token endpoint answers
CodeExchanged(c, response) ==
    /\ cb_pc[c] = "exchange_code_for_token"
    /\ IF TokenResponseAccepted(response)
       THEN /\ cb_pc' = [cb_pc EXCEPT ![c] = "_save_credentials"]
            /\ cb_local' = [cb_local EXCEPT ![c].token_data = response]
            /\ UNCHANGED cb_result
       ELSE /\ cb_pc' = [cb_pc EXCEPT ![c] = "done"]
            /\ cb_result' = [cb_result EXCEPT ![c] =
                  CallbackRaised(IF Has(response, "error") THEN "OAuth error"
                                 ELSE "No access_token received from OAuth provider")]
            /\ UNCHANGED cb_local
    /\ UNCHANGED <<storeVars, serviceVars, callVars, apiVars, opVars, envVars, fnVars, now, issued, redis, cb_req>>

\* lines 130-132: get_or_create_user and _save_credentials
CredentialsSaved(c) ==
    /\ cb_pc[c] = "_save_credentials"
    /\ users' = UsersAfterGetOrCreate(users, cb_local[c].user_id)
    /\ user_tool_auths' = SaveCredentials(user_tool_auths,
                                          GetOrCreateUser(users, cb_local[c].user_id),
                                          cb_req[c].tool_name, cb_local[c].token_data, now)
    /\ cb_pc' = [cb_pc EXCEPT ![c] = "redis_delete"]
    /\ UNCHANGED <<serviceVars, callVars, apiVars, opVars, envVars, fnVars, now, issued, redis, cb_req, cb_local, cb_result>>

\* lines 134-137: the state key is deleted and handle_callback returns True
StateDeleted(c) ==
    /\ cb_pc[c] = "redis_delete"
    /\ redis' = RedisDelete(redis, cb_req[c].state)
    /\ cb_pc' = [cb_pc EXCEPT ![c] = "done"]
    /\ cb_result' = [cb_result EXCEPT ![c] = CallbackReturnedTrue]
    /\ UNCHANGED <<storeVars, serviceVars, callVars, apiVars, opVars, envVars, fnVars, now, issued, cb_req, cb_local>>

\* time passes
Tick ==
    /\ now + ClockStep <= MaxTime
    /\ now' = now + ClockStep
    /\ UNCHANGED <<storeVars, serviceVars, callVars, apiVars, opVars, envVars, fnVars, issued, redis, cb_pc, cb_req,
                   cb_local, cb_result>>

InitOAuth ==
    /\ now = 0
    /\ issued = 0
    /\ redis = [s \in StateTokens |-> NoStateData]
    /\ cb_pc = [c \in Callbacks |-> "idle"]
    /\ cb_req = [c \in Callbacks |-> NoCallback]
    /\ cb_local = [c \in Callbacks |-> NoLocal]
    /\ cb_result = [c \in Callbacks |-> NoResult]

(***************************************************************************)
(* Tools API: POST /tools/{tool_name}/execute builds a ToolService for the *)
(* request and runs execute_tool on it                                     *)
(***************************************************************************)
\* the HTTP response of the endpoint: a returned mapping goes out as it is,
\* an exception becomes HTTP 500 (api/tools.py lines 55-68)
HttpResponse(res) == [status |-> IF res.kind = "raised" THEN 500 ELSE 200, body |-> res]
NoResponse == [status |-> 0, body |-> NoOutcome]

NoService ==
    [pc |-> "idle", req |-> NoRequest, sem_value |-> 0, active_executions |-> 0,
     queued_executions |-> 0, credentials |-> [ok |-> FALSE, value |-> EmptyDict],
     child |-> "none", response |-> NoResponse]

\* tool_service.py lines 23-44, called from api/tools.py line 53: a fresh
\* semaphore of C slots and fresh counters for this request
NewToolService(r) ==
    [NoService EXCEPT !.req = r, !.sem_value = max_concurrent_executions]

\* the inner finally, the release and the outer finally on the request's service
ApiFinish(s, res) ==
    [s EXCEPT !.pc = "done", !.response = HttpResponse(res),
              !.active_executions = @ - 1, !.sem_value = @ + 1,
              !.queued_executions = IF @ > 0 THEN @ - 1 ELSE @]

\* list.remove(x): the first occurrence goes
RemoveFirst(seq, x) ==
    LET i == CHOOSE i \in 1..Len(seq) : seq[i] = x /\ \A j \in 1..(i - 1) : seq[j] # x
    IN  SubSeq(seq, 1, i - 1) \o SubSeq(seq, i + 1, Len(seq))

\* a membership test that never finds the action
InList_Never(seq, x) == FALSE

InList(seq, x) == \E i \in 1..Len(seq) : seq[i] = x

\* set_action_disabled_status: the user_tool_auths table after the call
SetActionDisabledStatus(rows, user, tool_name, action_name, is_disabled) ==
    LET found == {r \in AuthRowsOf(rows, user.id, tool_name) : r.is_authenticated}
    IN  IF found = {} THEN rows
        ELSE LET auth_record == CHOOSE r \in found : TRUE
                 disabled_actions == auth_record.disabled_actions
                 updated ==
                    IF is_disabled
                    THEN IF InList(disabled_actions, action_name) THEN disabled_actions
                         ELSE Append(disabled_actions, action_name)
                    ELSE IF InList(disabled_actions, action_name)
                         THEN RemoveFirst(disabled_actions, action_name)
                         ELSE disabled_actions
             IN  (rows \ {auth_record}) \cup
                 {[auth_record EXCEPT !.disabled_actions = updated]}

\* api/tools.py lines 30-53 and tool_service.py lines 46-61: the endpoint
\* builds its ToolService and enters execute_tool, up to the first await
ApiExecute(h, user_id, tool_name, action) ==
    /\ api[h].pc = "idle"
    /\ \A g \in Requests : g < h => api[g].pc # "idle"
    /\ LET r == [user_id |-> user_id, tool_name |-> tool_name, action |-> action]
           s == NewToolService(r)
       IN  api' = [api EXCEPT ![h] =
                IF s.queued_executions >= max_queue_size
                THEN [s EXCEPT !.pc = "done", !.response = HttpResponse(ServerBusy(r))]
                ELSE [s EXCEPT !.pc = "get_user_credentials",
                               !.queued_executions = @ + 1]]
    /\ UNCHANGED <<storeVars, serviceVars, callVars, oauthVars, opVars, envVars, fnVars>>

\* tool_service.py lines 65-85 on the request's own service.  A caller that
\* finds no free slot waits at "acquire": nobody else holds this semaphore,
\* so nobody ever releases it.
ApiResolveCredentials(h) ==
    /\ api[h].pc = "get_user_credentials"
    /\ LET s == api[h]
           r == s.req
           got == GetUserCredentials(users, user_tool_auths, r.user_id, r.tool_name)
           t == [s EXCEPT !.credentials = got]
       IN  /\ users' = UsersAfterGetOrCreate(users, r.user_id)
           /\ api' = [api EXCEPT ![h] =
                IF NotCredentials(got) \/ IsErrorEnvelope(got.value)
                THEN [t EXCEPT !.pc = "cleanup_invalid_credentials"]
                ELSE IF r.tool_name \notin ScriptTools
                THEN [t EXCEPT !.pc = "done",
                               !.response = HttpResponse(
                                   Raised(r, <<"Tool script not found", r.tool_name>>)),
                               !.queued_executions = IF @ > 0 THEN @ - 1 ELSE @]
                ELSE IF s.sem_value > 0
                THEN [t EXCEPT !.pc = "create_subprocess_exec",
                               !.sem_value = @ - 1,
                               !.queued_executions = @ - 1,
                               !.active_executions = @ + 1]
                ELSE [t EXCEPT !.pc = "acquire"]]
    /\ UNCHANGED <<user_tool_auths, serviceVars, callVars, oauthVars, opVars, envVars, fnVars>>

\* tool_service.py lines 68-69, 74-75 and 156-159, then api/tools.py line 68
ApiCleanupAndRaise(h) ==
    /\ api[h].pc = "cleanup_invalid_credentials"
    /\ LET s == api[h]
           r == s.req
       IN  /\ users' = UsersAfterGetOrCreate(users, r.user_id)
           /\ user_tool_auths' =
                  CleanupInvalidCredentials(users, user_tool_auths, r.user_id, r.tool_name)
           /\ api' = [api EXCEPT ![h] =
                [s EXCEPT !.pc = "done",
                          !.response = HttpResponse(
                              IF NotCredentials(s.credentials)
                              THEN Raised(r, <<"not authenticated", r.user_id, r.tool_name>>)
                              ELSE Raised(r, <<"Invalid authentication", r.tool_name>>)),
                          !.queued_executions = IF @ > 0 THEN @ - 1 ELSE @]]
    /\ UNCHANGED <<serviceVars, callVars, oauthVars, opVars, envVars, fnVars>>

\* tool_service.py lines 101-107
ApiSpawn(h) ==
    /\ api[h].pc = "create_subprocess_exec"
    /\ api' = [api EXCEPT ![h].pc = "communicate", ![h].child = "running"]
    /\ UNCHANGED <<storeVars, serviceVars, callVars, oauthVars, opVars, envVars, fnVars>>

\* tool_service.py lines 101 and 147-153
ApiSpawnFails(h) ==
    /\ api[h].pc = "create_subprocess_exec"
    /\ api' = [api EXCEPT ![h] =
                  ApiFinish(@, Returned(@.req, FALSE, <<"OSError">>, <<>>))]
    /\ UNCHANGED <<storeVars, serviceVars, callVars, oauthVars, opVars, envVars, fnVars>>

\* tool_service.py lines 109-138
ApiChildDone(h, ex) ==
    /\ api[h].pc = "communicate"
    /\ api' = [api EXCEPT ![h] =
                  ApiFinish([@ EXCEPT !.child = "exited"], ResultOf(@.req, ex))]
    /\ UNCHANGED <<storeVars, serviceVars, callVars, oauthVars, opVars, envVars, fnVars>>

\* tool_service.py lines 109-112 and 140-146
ApiTimeout(h) ==
    /\ api[h].pc = "communicate"
    /\ api' = [api EXCEPT ![h] = ApiFinish(@, TimedOut(@.req))]
    /\ UNCHANGED <<storeVars, serviceVars, callVars, oauthVars, opVars, envVars, fnVars>>

\* api/auth.py lines 689-732: PUT /auth/tools/{tool_name}/actions/{action_name}/status
ApiSetActionDisabledStatus(user_id, tool_name, action_name, is_disabled) ==
    /\ users' = UsersAfterGetOrCreate(users, user_id)
    /\ user_tool_auths' =
           SetActionDisabledStatus(user_tool_auths, GetOrCreateUser(users, user_id),
                                   tool_name, action_name, is_disabled)
    /\ UNCHANGED <<serviceVars, callVars, oauthVars, apiVars, opVars, envVars, fnVars>>

InitApi == api = [h \in Requests |-> NoService]

(***************************************************************************)
(* Credential store API: the AuthService calls behind /auth/manual and     *)
(* /auth/tools/..., one call served at a time                              *)
(***************************************************************************)
\* the user and the actions the store calls are made for
StoreUsers == {"u1"}
StoreActions == {"list_repositories", "create_issue"}
\* credentials a caller registers through POST /auth/manual
ManualInputs == {{Entry("api_key", "k1")}, ErrorEnvelope}

\* a return value: None and False are [ok |-> FALSE], True is [ok |-> TRUE],
\* a returned dict is [ok |-> TRUE, value |-> the dict]
ReturnsNone == [ok |-> FALSE, value |-> EmptyDict]
ReturnsBool(b) == [ok |-> b, value |-> EmptyDict]

StoreCall(op, user_id, tool_name, creds, action, flag, ret) ==
    [op |-> op, user_id |-> user_id, tool_name |-> tool_name, credentials |-> creds,
     action |-> action, flag |-> flag, ret |-> ret]
NoStoreCall == StoreCall("", "", "", EmptyDict, "", FALSE, ReturnsNone)

\* a status switch that takes a record whether authenticated or not
SetToolActiveStatus_AnyRecord(rows, user, tool_name, is_active) ==
    LET found == AuthRowsOf(rows, user.id, tool_name)
    IN  IF found = {} THEN rows
        ELSE LET auth_record == CHOOSE r \in found : TRUE
             IN  (rows \ {auth_record}) \cup {[auth_record EXCEPT !.is_active = is_active]}

\* set_tool_active_status: the user_tool_auths table after the call
SetToolActiveStatus(rows, user, tool_name, is_active) ==
    LET found == {r \in AuthRowsOf(rows, user.id, tool_name) : r.is_authenticated}
    IN  IF found = {} THEN rows
        ELSE LET auth_record == CHOOSE r \in found : TRUE
             IN  (rows \ {auth_record}) \cup {[auth_record EXCEPT !.is_active = is_active]}

\* set_tool_active_status and set_action_disabled_status: the value returned
FoundAuthenticated(rows, user, tool_name) ==
    \E r \in AuthRowsOf(rows, user.id, tool_name) : r.is_authenticated

\* a disconnect that keeps the record and marks it unauthenticated
DisconnectTool_Demotes(rows, user, tool_name) ==
    LET found == AuthRowsOf(rows, user.id, tool_name)
    IN  IF found = {} THEN rows
        ELSE LET auth_record == CHOOSE r \in found : TRUE
             IN  (rows \ {auth_record}) \cup {[auth_record EXCEPT !.is_authenticated = FALSE]}

\* disconnect_tool: the user_tool_auths table after the call
DisconnectTool(rows, user, tool_name) ==
    LET found == AuthRowsOf(rows, user.id, tool_name)
    IN  IF found = {} THEN rows
        ELSE rows \ {CHOOSE r \in found : TRUE}

\* cleanup_invalid_credentials: the value returned
CleanupReturns(us, rows, external_id, tool_name) ==
    LET user == GetOrCreateUser(us, external_id)
        found == AuthRowsOf(rows, user.id, tool_name)
    IN  IF found = {} THEN FALSE
        ELSE LET auth_record == CHOOSE r \in found : TRUE
                 dec == decrypt_credentials(user.id, auth_record.encrypted_credentials)
             IN  dec.ok /\ IsErrorEnvelope(dec.value)

\* register_manual_auth, lines 32-53
StoreRegisterManualAuth(user_id, tool_name, creds) ==
    /\ users' = UsersAfterGetOrCreate(users, user_id)
    /\ user_tool_auths' = SaveCredentials(user_tool_auths, GetOrCreateUser(users, user_id),
                                          tool_name, ManualCredentials(creds), now)
    /\ store_call' = StoreCall("register_manual_auth", user_id, tool_name, creds, "", FALSE,
                               ReturnsBool(TRUE))
    /\ UNCHANGED <<serviceVars, callVars, oauthVars, apiVars, writers, envVars, fnVars>>

\* get_user_credentials, lines 180-206
StoreGetUserCredentials(user_id, tool_name) ==
    /\ users' = UsersAfterGetOrCreate(users, user_id)
    /\ store_call' = StoreCall("get_user_credentials", user_id, tool_name, EmptyDict, "", FALSE,
                               GetUserCredentials(users, user_tool_auths, user_id, tool_name))
    /\ UNCHANGED <<user_tool_auths, serviceVars, callVars, oauthVars, apiVars, writers, envVars, fnVars>>

\* cleanup_invalid_credentials, lines 368-396
StoreCleanupInvalidCredentials(user_id, tool_name) ==
    /\ users' = UsersAfterGetOrCreate(users, user_id)
    /\ user_tool_auths' =
           CleanupInvalidCredentials(users, user_tool_auths, user_id, tool_name)
    /\ store_call' = StoreCall("cleanup_invalid_credentials", user_id, tool_name, EmptyDict, "", FALSE,
                               ReturnsBool(CleanupReturns(users, user_tool_auths,
                                                          user_id, tool_name)))
    /\ UNCHANGED <<serviceVars, callVars, oauthVars, apiVars, writers, envVars, fnVars>>

\* set_tool_active_status, lines 259-279
StoreSetToolActiveStatus(user_id, tool_name, is_active) ==
    /\ users' = UsersAfterGetOrCreate(users, user_id)
    /\ user_tool_auths' = SetToolActiveStatus(user_tool_auths,
                                              GetOrCreateUser(users, user_id),
                                              tool_name, is_active)
    /\ store_call' = StoreCall("set_tool_active_status", user_id, tool_name, EmptyDict, "",
                               is_active,
                               ReturnsBool(FoundAuthenticated(user_tool_auths,
                                               GetOrCreateUser(users, user_id), tool_name)))
    /\ UNCHANGED <<serviceVars, callVars, oauthVars, apiVars, writers, envVars, fnVars>>

\* set_action_disabled_status, lines 281-317
StoreSetActionDisabledStatus(user_id, tool_name, action_name, is_disabled) ==
    /\ users' = UsersAfterGetOrCreate(users, user_id)
    /\ user_tool_auths' = SetActionDisabledStatus(user_tool_auths,
                                                  GetOrCreateUser(users, user_id),
                                                  tool_name, action_name, is_disabled)
    /\ store_call' = StoreCall("set_action_disabled_status", user_id, tool_name,
                               EmptyDict, action_name, is_disabled,
                               ReturnsBool(FoundAuthenticated(user_tool_auths,
                                               GetOrCreateUser(users, user_id), tool_name)))
    /\ UNCHANGED <<serviceVars, callVars, oauthVars, apiVars, writers, envVars, fnVars>>

\* disconnect_tool, lines 319-339
StoreDisconnectTool(user_id, tool_name) ==
    /\ users' = UsersAfterGetOrCreate(users, user_id)
    /\ user_tool_auths' = DisconnectTool(user_tool_auths,
                                         GetOrCreateUser(users, user_id), tool_name)
    /\ store_call' = StoreCall("disconnect_tool", user_id, tool_name, EmptyDict, "", FALSE,
                               ReturnsBool(AuthRowsOf(user_tool_auths,
                                   GetOrCreateUser(users, user_id).id, tool_name) # {}))
    /\ UNCHANGED <<serviceVars, callVars, oauthVars, apiVars, writers, envVars, fnVars>>

(***************************************************************************)
(* HTTP endpoints that write credentials (api/auth.py).  store_call.flag   *)
(* tells whether the request passed the API authentication dependency.     *)
(***************************************************************************)
\* api/auth.py lines 474-514, POST /auth/manual: Depends(user_auth_required)
\* answers 401 to a request without X-API-KEY or Authorization header
\* (core/auth.py lines 93-97); else register_manual_auth for the user
PostManual(has_key, user_id, tool_name, creds) ==
    /\ IF has_key
       THEN /\ users' = UsersAfterGetOrCreate(users, user_id)
            /\ user_tool_auths' =
                  SaveCredentials(user_tool_auths, GetOrCreateUser(users, user_id),
                                  tool_name, ManualCredentials(creds), now)
       ELSE UNCHANGED <<users, user_tool_auths>>
    /\ store_call' = StoreCall("POST /auth/manual", user_id, tool_name, creds, "", has_key,
                               ReturnsBool(has_key))
    /\ UNCHANGED <<serviceVars, callVars, oauthVars, apiVars, writers, envVars, fnVars>>

\* api/auth.py lines 573-614, POST /auth/form/{tool_name}?user_id=...: no
\* authentication dependency and no state token; the form fields are
\* registered for the user named in the query string
PostForm(user_id, tool_name, creds) ==
    /\ users' = UsersAfterGetOrCreate(users, user_id)
    /\ user_tool_auths' =
          SaveCredentials(user_tool_auths, GetOrCreateUser(users, user_id),
                          tool_name, ManualCredentials(creds), now)
    /\ store_call' = StoreCall("POST /auth/form", user_id, tool_name, creds, "", FALSE,
                               ReturnsBool(TRUE))
    /\ UNCHANGED <<serviceVars, callVars, oauthVars, apiVars, writers, envVars, fnVars>>

(***************************************************************************)
(* Concurrent writers of one credential record.  Every request has its own *)
(* database session (core/database.py get_db); a writer is cut at its two  *)
(* awaits: the SELECT of the record and the commit.                        *)
(***************************************************************************)
\* the (user, tool) pairs the writers go for: one with a record, one without
WriterTargets == {<<"u1", "github">>, <<"u2", "slack">>}

NoRow == AuthRow(0, 0, "", encrypt_credentials(0, EmptyDict), FALSE, FALSE, <<>>, 0)

NoWriter ==
    [pc |-> "idle", op |-> "", user_id |-> "", tool_name |-> "", action |-> "",
     flag |-> FALSE, loaded |-> NoRow, ret |-> "none"]

\* the row with primary key id, as the table holds it now
RowById(rows, id) == CHOOSE r \in rows : r.id = id

\* a request starts: register_manual_auth (op "_save_credentials") or
\* set_action_disabled_status; get_or_create_user finds the user, and the
\* SELECT of the record is sent
WriterBegins(w, op, target, action, flag) ==
    /\ writers[w].pc = "idle"
    /\ \A v \in Writers : v < w =>
          /\ writers[v].pc # "idle"
          /\ <<writers[v].user_id, writers[v].tool_name>> = target
    /\ writers' = [writers EXCEPT ![w] =
          [NoWriter EXCEPT !.pc = "select", !.op = op, !.user_id = target[1],
                           !.tool_name = target[2], !.action = action, !.flag = flag]]
    /\ UNCHANGED <<storeVars, serviceVars, callVars, oauthVars, apiVars, store_call, envVars, fnVars>>

\* lines 142-148 and 286-293: the SELECT returns; scalar_one_or_none gives the
\* row, None, or raises MultipleResultsFound
WriterSelects(w) ==
    /\ writers[w].pc = "select"
    /\ LET me == writers[w]
           user == GetOrCreateUser(users, me.user_id)
           all == AuthRowsOf(user_tool_auths, user.id, me.tool_name)
           found == IF me.op = "_save_credentials" THEN all
                    ELSE {r \in all : r.is_authenticated}
       IN  writers' = [writers EXCEPT ![w] =
              IF Cardinality(found) > 1
              THEN [me EXCEPT !.pc = "done", !.ret = "MultipleResultsFound"]
              ELSE IF found = {}
              THEN IF me.op = "_save_credentials"
                   THEN [me EXCEPT !.pc = "commit"]
                   ELSE [me EXCEPT !.pc = "done", !.ret = "False"]
              ELSE [me EXCEPT !.pc = "commit", !.loaded = CHOOSE r \in found : TRUE]]
    /\ UNCHANGED <<storeVars, serviceVars, callVars, oauthVars, apiVars, store_call, envVars, fnVars>>

\* lines 150-178 and 298-315: the commit writes the columns this request set
\* on the row it loaded, or inserts the row it built
WriterCommits(w) ==
    /\ writers[w].pc = "commit"
    /\ LET me == writers[w]
           user == GetOrCreateUser(users, me.user_id)
           old == me.loaded.disabled_actions
           updated ==
              IF me.flag
              THEN IF InList(old, me.action) THEN old ELSE Append(old, me.action)
              ELSE IF InList(old, me.action) THEN RemoveFirst(old, me.action) ELSE old
           enc == encrypt_credentials(user.id, ManualCredentials({Entry("api_key", "k1")}))
       IN  user_tool_auths' =
              IF me.loaded = NoRow
              THEN user_tool_auths \cup
                   {AuthRow(NewId(user_tool_auths), user.id, me.tool_name, enc,
                            TRUE, TRUE, <<>>, now)}
              ELSE LET cur == RowById(user_tool_auths, me.loaded.id)
                   IN  (user_tool_auths \ {cur}) \cup
                       {IF me.op = "_save_credentials"
                        THEN [cur EXCEPT !.encrypted_credentials = enc,
                                         !.is_authenticated = TRUE, !.last_auth_at = now]
                        ELSE [cur EXCEPT !.disabled_actions = updated]}
    /\ writers' = [writers EXCEPT ![w].pc = "done", ![w].ret = "True"]
    /\ UNCHANGED <<users, serviceVars, callVars, oauthVars, apiVars, store_call, envVars, fnVars>>

\* auth_service.py lines 43 and 57-59: register_manual_auth of a request
\* calls get_or_create_user; the SELECT of the user is sent
UserBegins(w, target) ==
    /\ writers[w].pc = "idle"
    /\ writers' = [writers EXCEPT ![w] =
          [NoWriter EXCEPT !.pc = "select_user", !.op = "_save_credentials",
                           !.user_id = target[1], !.tool_name = target[2]]]
    /\ UNCHANGED <<storeVars, serviceVars, callVars, oauthVars, apiVars, store_call, envVars, fnVars>>

\* lines 60-63: the SELECT returns; an existing user is returned and
\* _save_credentials sends its SELECT, else a User is built and added to the
\* session
UserSelects(w) ==
    /\ writers[w].pc = "select_user"
    /\ writers' = [writers EXCEPT ![w].pc =
          IF UsersWith(users, writers[w].user_id) # {} THEN "select" ELSE "insert_user"]
    /\ UNCHANGED <<storeVars, serviceVars, callVars, oauthVars, apiVars, store_call, envVars, fnVars>>

\* lines 64-68: the commit sends the INSERT; external_id is unique
\* (models/user.py line 18), so with a row of that external id in the table
\* the commit raises IntegrityError, which ends register_manual_auth (lines
\* 51-53); else the user is returned and _save_credentials sends its SELECT
UserCommits(w) ==
    /\ writers[w].pc = "insert_user"
    /\ IF UsersWith(users, writers[w].user_id) # {}
       THEN /\ writers' = [writers EXCEPT ![w].pc = "done", ![w].ret = "IntegrityError"]
            /\ users' = users
       ELSE /\ writers' = [writers EXCEPT ![w].pc = "select"]
            /\ users' = UsersAfterGetOrCreate(users, writers[w].user_id)
    /\ UNCHANGED <<user_tool_auths, serviceVars, callVars, oauthVars, apiVars, store_call, envVars, fnVars>>

(***************************************************************************)
(* Helper functions applied on their own: the arguments are drawn when the *)
(* behaviour starts, one step computes the result                          *)
(***************************************************************************)
NoFnCall == [op |-> "", args |-> <<>>, done |-> FALSE, ret |-> <<>>]
FnCall(op, args) == [op |-> op, args |-> args, done |-> FALSE, ret |-> <<>>]

\* credential payloads: every dict over these fields, a key at most once
CredentialDicts ==
    LET fields == { Entry("access_token", "tok"), Field("access_token", "null", ""),
                    Entry("refresh_token", "ref"), Field("refresh_token", "null", ""),
                    Entry("api_key", "xyz"), Field("api_key", "int", "7"),
                    Entry("Api_Key", "7"),
                    Entry("auth_type", "manual"),
                    Entry("registered_at", "2026-01-01T00:00:00") }
    IN  {d \in SUBSET fields : Cardinality(Keys(d)) = Cardinality(d)}

\* what a form or an auth URL may send back
Submissions ==
    LET fields == { Entry("api_key", "xyz"), Entry("access_token", "tok"),
                    Entry("auth_type", "oauth"), Entry("auth_type", "manual"),
                    Entry("user_id", "u9"),
                    Entry("authenticated_at", "1999-12-31T00:00:00") }
    IN  {d \in SUBSET fields : Cardinality(Keys(d)) = Cardinality(d)}

\* datetime.utcnow().isoformat() at the time of the call
UtcNow == "2026-01-01T00:00:00"

\* form_manual_auth_handler.py lines 20-29: a dict display, the submitted
\* fields spread last
FormProcessAuthResponse(auth_data, user_id) ==
    DictUpdate({Entry("auth_type", "manual"), Entry("authenticated_at", UtcNow),
                Entry("user_id", user_id)},
               auth_data)

\* r2r_manual_auth_handler.py lines 24-43: the submitted fields are added
\* unless their key is already set
R2RProcessAuthResponse(auth_data, user_id) ==
    LET stamped == {Entry("auth_type", "manual"), Entry("authenticated_at", UtcNow),
                    Entry("user_id", user_id)}
        creds == stamped \cup {e \in auth_data : e.k = "access_token"}
    IN  creds \cup {e \in auth_data : e.k \notin Keys(creds)}

\* the ids of the users rows
Subjects == 1..2

FnInputs ==
    {FnCall("decrypt_credentials", [sealed_for |-> s1, user_id |-> s2, credentials |-> d]) :
        s1 \in Subjects, s2 \in Subjects, d \in CredentialDicts}
    \cup {FnCall("_prepare_tool_env", [credentials |-> d]) : d \in CredentialDicts}
    \cup {FnCall("process_auth_response", [handler |-> h, auth_data |-> d, user_id |-> u]) :
             h \in {"form", "r2r"}, d \in Submissions, u \in Users}
    \cup {FnCall("execute_tool.result",
                 [request |-> [user_id |-> "u1", tool_name |-> t, action |-> a], exit |-> ex]) :
             t \in ScriptTools, a \in Actions,
             ex \in ChildExits \cup {ChildExit(0, BinaryOutput, ""),
                                      ChildExit(1, "", BinaryOutput)}}

\* encryption.py: a payload sealed for one user id is opened under another
ApplyDecrypt ==
    /\ fn_call.op = "decrypt_credentials" /\ ~fn_call.done
    /\ fn_call' = [fn_call EXCEPT !.done = TRUE, !.ret =
          decrypt_credentials(fn_call.args.user_id,
              encrypt_credentials(fn_call.args.sealed_for, fn_call.args.credentials))]
    /\ UNCHANGED <<storeVars, serviceVars, callVars, oauthVars, apiVars, opVars, envVars>>

\* tool_service.py lines 166-207
ApplyPrepareToolEnv ==
    /\ fn_call.op = "_prepare_tool_env" /\ ~fn_call.done
    /\ \E env \in ToolEnvs(fn_call.args.credentials) :
          fn_call' = [fn_call EXCEPT !.done = TRUE, !.ret = env]
    /\ UNCHANGED <<storeVars, serviceVars, callVars, oauthVars, apiVars, opVars, envVars>>

ApplyProcessAuthResponse ==
    /\ fn_call.op = "process_auth_response" /\ ~fn_call.done
    /\ fn_call' = [fn_call EXCEPT !.done = TRUE, !.ret =
          IF fn_call.args.handler = "form"
          THEN FormProcessAuthResponse(fn_call.args.auth_data, fn_call.args.user_id)
          ELSE R2RProcessAuthResponse(fn_call.args.auth_data, fn_call.args.user_id)]
    /\ UNCHANGED <<storeVars, serviceVars, callVars, oauthVars, apiVars, opVars, envVars>>

\* tool_service.py lines 114-153
ApplyResultOf ==
    /\ fn_call.op = "execute_tool.result" /\ ~fn_call.done
    /\ fn_call' = [fn_call EXCEPT !.done = TRUE, !.ret = ResultOf(fn_call.args.request, fn_call.args.exit)]
    /\ UNCHANGED <<storeVars, serviceVars, callVars, oauthVars, apiVars, opVars, envVars>>

InitOps ==
    /\ store_call = NoStoreCall
    /\ writers = [w \in Writers |-> NoWriter]
    /\ os_environ = ServerEnviron
    /\ child_env = [p \in Calls |-> EmptyDict]
    /\ fn_call = NoFnCall

(***************************************************************************)
(* Specification of the dispatcher: one ToolService, NumCalls calls        *)
(***************************************************************************)
\* the store as left by earlier authentications:
\*   u1/github a token payload, u1/slack a token payload (slack has no script),
\*   u2/github an error envelope registered through register_manual_auth,
\*   u2/slack nothing
InitUsers == UsersAfterGetOrCreate(UsersAfterGetOrCreate({}, "u1"), "u2")
InitAuths ==
    LET u1 == GetOrCreateUser(InitUsers, "u1")
        u2 == GetOrCreateUser(InitUsers, "u2")
    IN  SaveCredentials(
          SaveCredentials(
            SaveCredentials({}, u1, "github", TokenPayload("tok1"), 0),
            u1, "slack", TokenPayload("tok2"), 0),
          u2, "github", ManualCredentials(ErrorEnvelope), 0)

\* lines 23-44: ToolService.__init__
InitService ==
    /\ max_concurrent_executions \in 0..MaxCapacity
    /\ max_queue_size \in 0..MaxQueueLimit
    /\ sem_value = max_concurrent_executions
    /\ active_executions = 0
    /\ queued_executions = 0

InitCalls ==
    /\ pc = [p \in Calls |-> "idle"]
    /\ req = [p \in Calls |-> NoRequest]
    /\ credentials = [p \in Calls |-> [ok |-> FALSE, value |-> EmptyDict]]
    /\ outcome = [p \in Calls |-> NoOutcome]
    /\ child = [p \in Calls |-> "none"]
    /\ queue_decrements = [p \in Calls |-> 0]

InitExec ==
    /\ users = InitUsers
    /\ user_tool_auths = InitAuths
    /\ InitService
    /\ InitCalls
    /\ InitOAuth
    /\ InitApi
    /\ InitOps

\* one step of call p
CallStep(p) ==
    \/ \E u \in Users, t \in Tools, a \in Actions : Enter(p, u, t, a)
    \/ ResolveCredentials(p)
    \/ CleanupAndRaise(p)
    \/ Acquire(p)
    \/ Spawn(p)
    \/ SpawnFails(p)
    \/ \E ex \in ChildExits : ChildDone(p, ex)
    \/ Timeout(p)
    \/ AbandonedChildExits(p)

NextExec == \E p \in Calls : CallStep(p)

SpecExec == InitExec /\ [][NextExec]_vars

\* The event loop resumes every coroutine whose await has completed, wakes a
\* semaphore waiter when a slot is free, and fires the wait_for timer of a
\* child that does not exit: each step of a call that stays possible is taken.
FairExec ==
    \A p \in FairCalls :
        /\ WF_vars(ResolveCredentials(p))
        /\ WF_vars(CleanupAndRaise(p))
        /\ WF_vars(Acquire(p))
        /\ WF_vars(Spawn(p) \/ SpawnFails(p))
        /\ WF_vars((\E ex \in ChildExits : ChildDone(p, ex)) \/ Timeout(p))

NextExecFair == \E p \in FairCalls : CallStep(p)

SpecExecFair == InitExec /\ [][NextExecFair]_vars /\ FairExec

(***************************************************************************)
(* Specification of the dispatcher over a store that holds a ciphertext    *)
(* sealed under an earlier ENCRYPTION_KEY                                  *)
(***************************************************************************)
PreviousSecret == "secret-0"

\* the u2/slack record: authenticated and active, written before the server
\* secret was changed, so Fernet.decrypt raises InvalidToken on it
StaleRow ==
    LET u2 == GetOrCreateUser(InitUsers, "u2")
    IN  AuthRow(NewId(InitAuths), u2.id, "slack",
                [key |-> _generate_key(PreviousSecret, u2.id),
                 plaintext |-> JsonDumps(TokenPayload("tok0"))],
                TRUE, TRUE, <<>>, 0)

InitExecStale ==
    /\ users = InitUsers
    /\ user_tool_auths = InitAuths \cup {StaleRow}
    /\ InitService
    /\ InitCalls
    /\ InitOAuth
    /\ InitApi
    /\ InitOps

SpecExecStale == InitExecStale /\ [][NextExecFair]_vars

(***************************************************************************)
(* Specification of the dispatcher with two users whose github credentials *)
(* both run a child, and slots for the calls to run side by side           *)
(***************************************************************************)
InitEnv ==
    /\ users = InitUsers
    /\ \E c1 \in {{Entry("access_token", "tok1"), Entry("refresh_token", "ref1")}},
          c2 \in {ManualCredentials({Entry("api_key", "xyz")}), TokenPayload("tok2")} :
          user_tool_auths =
             SaveCredentials(
               SaveCredentials({}, GetOrCreateUser(InitUsers, "u1"), "github", c1, 0),
               GetOrCreateUser(InitUsers, "u2"), "github", c2, 0)
    /\ max_concurrent_executions \in {MaxCapacity, MaxCapacity + 1}
    /\ max_queue_size = MaxQueueLimit + 1
    /\ sem_value = max_concurrent_executions
    /\ active_executions = 0
    /\ queued_executions = 0
    /\ InitCalls
    /\ InitOAuth
    /\ InitApi
    /\ InitOps

SpecEnv == InitEnv /\ [][NextExecFair]_vars

(***************************************************************************)
(* Specification of the OAuth flow: tokens issued, callbacks received      *)
(***************************************************************************)
InitOAuthFlow ==
    /\ users = {}
    /\ user_tool_auths = {}
    /\ max_concurrent_executions = MaxCapacity
    /\ max_queue_size = MaxQueueLimit
    /\ sem_value = max_concurrent_executions
    /\ active_executions = 0
    /\ queued_executions = 0
    /\ InitCalls
    /\ InitOAuth
    /\ InitApi
    /\ InitOps

\* one step of handle_callback request c
CallbackStep(c) ==
    \/ \E t \in Tools, s \in StateTokens : CallbackArrives(c, t, CodeOf(c), s)
    \/ StateRead(c)
    \/ \E response \in ProviderResponses : CodeExchanged(c, response)
    \/ CredentialsSaved(c)
    \/ StateDeleted(c)

NextOAuth ==
    \/ \E u \in Users, t \in Tools : GenerateAuthUrl(u, t)
    \/ \E c \in Callbacks : CallbackStep(c)
    \/ Tick

SpecOAuth == InitOAuthFlow /\ [][NextOAuth]_vars

(***************************************************************************)
(* Specification of re-authentication: the OAuth flow of a user who also   *)
(* switches tools on and off through PUT /auth/tools/{tool_name}/status    *)
(***************************************************************************)
NextReauth ==
    \/ \E u \in StoreUsers, t \in Tools : GenerateAuthUrl(u, t)
    \/ \E c \in Callbacks : CallbackStep(c)
    \/ \E u \in StoreUsers, t \in Tools, b \in BOOLEAN : StoreSetToolActiveStatus(u, t, b)

\* the store as left by earlier authentications, and no state token issued
InitReauth ==
    /\ users = InitUsers
    /\ user_tool_auths = InitAuths
    /\ max_concurrent_executions = MaxCapacity
    /\ max_queue_size = MaxQueueLimit
    /\ sem_value = max_concurrent_executions
    /\ active_executions = 0
    /\ queued_executions = 0
    /\ InitCalls
    /\ InitOAuth
    /\ InitApi
    /\ InitOps

SpecReauth == InitReauth /\ [][NextReauth]_vars

(***************************************************************************)
(* Specification of the helper functions                                   *)
(***************************************************************************)
InitPure ==
    /\ users = InitUsers
    /\ user_tool_auths = InitAuths
    /\ max_concurrent_executions = MaxCapacity
    /\ max_queue_size = MaxQueueLimit
    /\ sem_value = max_concurrent_executions
    /\ active_executions = 0
    /\ queued_executions = 0
    /\ InitCalls
    /\ InitOAuth
    /\ InitApi
    /\ store_call = NoStoreCall
    /\ writers = [w \in Writers |-> NoWriter]
    /\ os_environ = ServerEnviron
    /\ child_env = [p \in Calls |-> EmptyDict]
    /\ fn_call \in FnInputs

NextPure ==
    \/ ApplyDecrypt
    \/ ApplyPrepareToolEnv
    \/ ApplyProcessAuthResponse
    \/ ApplyResultOf

SpecPure == InitPure /\ [][NextPure]_vars

(***************************************************************************)
(* Specification of the tools API: NumRequests execute requests            *)
(***************************************************************************)
InitApiFlow ==
    /\ users = InitUsers
    /\ user_tool_auths = InitAuths
    /\ InitService
    /\ InitCalls
    /\ InitOAuth
    /\ InitApi
    /\ InitOps

NextApi ==
    \/ \E h \in Requests :
          \/ \E u \in Users, t \in Tools, a \in Actions : ApiExecute(h, u, t, a)
          \/ ApiResolveCredentials(h)
          \/ ApiCleanupAndRaise(h)
          \/ ApiSpawn(h)
          \/ ApiSpawnFails(h)
          \/ \E ex \in ChildExits : ApiChildDone(h, ex)
          \/ ApiTimeout(h)
    \/ \E u \in Users, t \in Tools, a \in Actions, b \in BOOLEAN :
          ApiSetActionDisabledStatus(u, t, a, b)

SpecApi == InitApiFlow /\ [][NextApi]_vars

(***************************************************************************)
(* Specification of the credential store API, one call at a time           *)
(***************************************************************************)
\* the store as earlier authentications left it at time 0; calls come later
InitStore ==
    /\ users = InitUsers
    /\ user_tool_auths = InitAuths
    /\ InitService
    /\ InitCalls
    /\ InitApi
    /\ InitOps
    /\ now = ClockStep
    /\ issued = 0
    /\ redis = [s \in StateTokens |-> NoStateData]
    /\ cb_pc = [c \in Callbacks |-> "idle"]
    /\ cb_req = [c \in Callbacks |-> NoCallback]
    /\ cb_local = [c \in Callbacks |-> NoLocal]
    /\ cb_result = [c \in Callbacks |-> NoResult]
    /\ max_concurrent_executions = MaxCapacity
    /\ max_queue_size = MaxQueueLimit

NextStore ==
    \E u \in StoreUsers, t \in Tools :
        \/ \E creds \in ManualInputs : StoreRegisterManualAuth(u, t, creds)
        \/ StoreGetUserCredentials(u, t)
        \/ StoreCleanupInvalidCredentials(u, t)
        \/ \E b \in BOOLEAN : StoreSetToolActiveStatus(u, t, b)
        \/ \E a \in StoreActions, b \in BOOLEAN : StoreSetActionDisabledStatus(u, t, a, b)
        \/ StoreDisconnectTool(u, t)

SpecStore == InitStore /\ [][NextStore]_vars

(***************************************************************************)
(* Specification of concurrent writers of one credential record            *)
(***************************************************************************)
NextStoreRace ==
    \E w \in Writers :
        \/ \E target \in WriterTargets :
              \/ WriterBegins(w, "_save_credentials", target, "", FALSE)
              \/ \E a \in StoreActions, b \in BOOLEAN :
                    WriterBegins(w, "set_action_disabled_status", target, a, b)
        \/ WriterSelects(w)
        \/ WriterCommits(w)

SpecStoreRace == InitStore /\ [][NextStoreRace]_vars

(***************************************************************************)
(* Specification of the dispatcher beside requests that deactivate or      *)
(* disconnect a tool.  A request is served whole while the calls wait at   *)
(* an await; execute_tool has no await between taking the semaphore slot   *)
(* (line 83) and starting the child (line 101), so none is served there.   *)
(***************************************************************************)
Revoke(user_id, tool_name) ==
    /\ \A p \in Calls : pc[p] # "create_subprocess_exec"
    /\ \/ StoreSetToolActiveStatus(user_id, tool_name, FALSE)
       \/ StoreDisconnectTool(user_id, tool_name)

NextExecRevoke ==
    \/ NextExecFair
    \/ \E u \in StoreUsers : Revoke(u, "github")

SpecExecRevoke == InitExec /\ [][NextExecRevoke]_vars

(***************************************************************************)
(* Specification of the requests that write credentials: the OAuth flow,   *)
(* POST /auth/manual and the form submission                               *)
(***************************************************************************)
NextWrite ==
    \/ \E u \in StoreUsers : GenerateAuthUrl(u, "github")
    \/ \E c \in Callbacks : CallbackStep(c)
    \/ \E has_key \in BOOLEAN, u \in Users :
          PostManual(has_key, u, "github", {Entry("api_key", "k1")})
    \/ \E u \in Users : PostForm(u, "github", {Entry("api_key", "k2")})

SpecWrite == InitOAuthFlow /\ [][NextWrite]_vars

(***************************************************************************)
(* Specification of concurrent requests that create the same user          *)
(***************************************************************************)
NextUserRace ==
    \E w \in Writers :
        \/ \E target \in WriterTargets : UserBegins(w, target)
        \/ UserSelects(w)
        \/ UserCommits(w)
        \/ WriterSelects(w)
        \/ WriterCommits(w)

SpecUserRace == InitOAuthFlow /\ [][NextUserRace]_vars

(***************************************************************************)
(* Properties of the dispatcher                                            *)
(***************************************************************************)
\* calls inside the "async with" block: they hold a semaphore slot
Holding == {p \in Calls : pc[p] \in {"create_subprocess_exec", "communicate"}}
\* calls admitted past the busy check that do not hold a slot yet
Admitted == {p \in Calls : pc[p] \in {"get_user_credentials",
                                      "cleanup_invalid_credentials", "acquire"}}
InFlight == Holding \cup Admitted
LiveChildren == {p \in Calls : child[p] = "running"}

\* C3: in every reachable state the number of calls holding a semaphore slot
\* and the active-count counter are both at most the capacity C.
C3_ConcurrencyBound ==
    /\ Cardinality(Holding) <= max_concurrent_executions
    /\ active_executions <= max_concurrent_executions

\* C3 witness: the capacity is used up and another call waits for a slot
C3_Witness ==
    /\ max_concurrent_executions >= 1
    /\ Cardinality(Holding) = max_concurrent_executions
    /\ active_executions = max_concurrent_executions
    /\ \E p \in Calls : pc[p] = "acquire"

\* C4: every call that incremented queued-count has decremented it exactly
\* once when it has returned (and never more than once before), on every
\* exit path and for every interleaving.
C4_DecrementExactlyOnce ==
    \A p \in Calls :
        /\ queue_decrements[p] <= 1
        /\ pc[p] = "done" =>
              queue_decrements[p] = IF outcome[p] = ServerBusy(req[p]) THEN 0 ELSE 1

\* C5: at every suspension point queued-count is the number of calls past
\* the busy check that hold no slot yet; it is never negative and it is 0
\* whenever no call is in flight.
C5_QueuedCountExact ==
    /\ queued_executions = Cardinality(Admitted)
    /\ queued_executions >= 0
    /\ InFlight = {} => queued_executions = 0

\* C6: the number of calls admitted past the busy check and not yet holding
\* a slot never exceeds the queue-depth limit Q.
C6_QueueBounded == Cardinality(Admitted) <= max_queue_size

C8_TimeoutKillsChild ==
    /\ \A p \in Calls : pc[p] = "done" => child[p] # "running"
    /\ Cardinality(LiveChildren) <= max_concurrent_executions

\* C9: when the child of a call outlives the timeout, the call returns
\* success=false with an error naming the configured timeout, and its slot is
\* back: active-count and the free slots account for the other holders only.
C9_TimeoutReleasesSlot ==
    [][\A p \in Calls :
          (pc[p] = "communicate" /\ pc'[p] = "done" /\ child'[p] # "exited")
          => /\ outcome'[p].kind = "returned"
             /\ ~outcome'[p].success
             /\ outcome'[p].error = <<"Tool execution timed out after", request_timeout>>
             /\ active_executions' = Cardinality(Holding \ {p})
             /\ sem_value' = max_concurrent_executions - Cardinality(Holding \ {p})]_vars

\* C9 witness: a call timed out and returned, and no other call is in flight
C9_Witness ==
    \E p \in Calls :
        /\ pc[p] = "done"
        /\ outcome[p] = TimedOut(req[p])
        /\ InFlight = {}
        /\ active_executions = 0
        /\ sem_value = max_concurrent_executions

\* C10: execute_tool never raises: every finished call returned a mapping
\* with a success flag, the tool name and the action.
C10_NeverRaises ==
    \A p \in Calls :
        pc[p] = "done" =>
            /\ outcome[p].kind = "returned"
            /\ outcome[p].success \in BOOLEAN
            /\ outcome[p].tool_name = req[p].tool_name
            /\ outcome[p].action = req[p].action

\* calls whose get_user_credentials has returned
Resolved ==
    {p \in Calls : /\ pc[p] \notin {"idle", "get_user_credentials"}
                   /\ outcome[p] # ServerBusy(req[p])}

\* C13: a call has a child process or a slot only if get_user_credentials
\* gave it a payload that is not an error envelope; a call that got nothing
\* or an envelope goes through cleanup_invalid_credentials (the envelope
\* record ends unauthenticated), is raised as not authenticated, and never
\* holds a slot or has a child.
C13_ChildOnlyWithCredentials ==
    \A p \in Calls :
        LET c == credentials[p]
            unusable == \/ ~c.ok
                        \/ c.value = {}
                        \/ ("error" \in Keys(c.value) /\ "access_token" \notin Keys(c.value))
            user == GetOrCreateUser(users, req[p].user_id)
        IN  /\ (child[p] # "none" \/ p \in Holding) => ~unusable
            /\ (p \in Resolved /\ unusable) =>
                  /\ pc[p] \in {"cleanup_invalid_credentials", "done"}
                  /\ child[p] = "none"
                  /\ pc[p] = "done" =>
                        /\ outcome[p].kind = "raised"
                        /\ outcome[p].error[1] \in {"not authenticated", "Invalid authentication"}
                        /\ \A row \in AuthRowsOf(user_tool_auths, user.id, req[p].tool_name) :
                              row.is_authenticated =>
                                 ~("error" \in Keys(JsonLoads(row.encrypted_credentials.plaintext))
                                   /\ "access_token" \notin Keys(JsonLoads(row.encrypted_credentials.plaintext)))

\* C13 witness: one call was refused for an error envelope, which cleanup
\* marked unauthenticated, one for a missing record, and a third has a child
C13_Witness ==
    \E p, q, r \in Calls :
        /\ pc[p] = "done" /\ outcome[p] = Raised(req[p], <<"Invalid authentication", "github">>)
        /\ \E row \in user_tool_auths : row.tool_name = "github" /\ ~row.is_authenticated
        /\ pc[q] = "done"
        /\ outcome[q] = Raised(req[q], <<"not authenticated", "u2", "slack">>)
        /\ child[r] = "running"

\* C14: in every reachable state active-count plus the free slots of the
\* semaphore is C, and when no call is in flight active-count is 0 and all C
\* slots are free.
C14_SlotAccounting ==
    /\ active_executions + sem_value = max_concurrent_executions
    /\ InFlight = {} => (active_executions = 0 /\ sem_value = max_concurrent_executions)

\* C14 witness: a timeout, a failed tool and an exception of
\* create_subprocess_exec have all returned and nothing is in flight
C14_Witness ==
    /\ InFlight = {}
    /\ max_concurrent_executions >= 1
    /\ \E p, q, r \in Calls :
          /\ outcome[p] = TimedOut(req[p])
          /\ outcome[q] = Returned(req[q], FALSE, <<"Traceback">>, <<>>)
          /\ outcome[r] = Returned(req[r], FALSE, <<"OSError">>, <<>>)

\* C15: with C >= 1, every call admitted past the busy check eventually
\* returns or raises; none waits for a slot forever.
C15_AdmittedCallsReturn ==
    \A p \in FairCalls :
        (max_concurrent_executions >= 1 /\ p \in InFlight) ~> (pc[p] = "done")

\* C15 witness: a call waits for a slot that a timed-out call has given back
C15_Witness ==
    \E p, q \in Calls :
        /\ pc[p] = "acquire"
        /\ sem_value >= 1
        /\ pc[q] = "done" /\ outcome[q] = TimedOut(req[q])

(***************************************************************************)
(* Properties of the tools API                                             *)
(***************************************************************************)
\* requests whose execute_tool is inside its "async with" block
ApiRunning == {h \in Requests : api[h].pc \in {"create_subprocess_exec", "communicate"}}

\* the disabled_actions of the record get_user_credentials reads for a request
DisabledFor(r) ==
    LET user == GetOrCreateUser(users, r.user_id)
    IN  UNION {{row.disabled_actions[i] : i \in 1..Len(row.disabled_actions)} :
                  row \in AuthRowsOf(user_tool_auths, user.id, r.tool_name)}

\* C11: across all execute requests the tools API is serving, at most C tool
\* actions run at the same time.
C11_GlobalBound == Cardinality(ApiRunning) <= max_concurrent_executions

\* C12: execute_tool starts no child process for an action that is in
\* disabled_actions of the caller's (user, tool) record.
C12_DisabledNotExecuted ==
    [][\A h \in Requests :
          (api[h].child = "none" /\ api'[h].child = "running")
          => api[h].req.action \notin DisabledFor(api[h].req)]_vars

(***************************************************************************)
(* Properties of the OAuth state tokens                                    *)
(***************************************************************************)
Succeeded(c) == cb_pc[c] = "done" /\ cb_result[c] = CallbackReturnedTrue

\* C1: of two handle_callback calls racing on the same state token, at most
\* one succeeds.
C1_RacingCallbacksOneWinner ==
    \A c, d \in Callbacks :
        (c # d /\ cb_req[c].state = cb_req[d].state /\ Succeeded(c)) => ~Succeeded(d)

\* C2: for every issued state token at most one handle_callback succeeds, and
\* a handle_callback whose state lookup comes after a successful one with the
\* same token fails with Invalid state.
C2_StateSingleUse ==
    [][/\ \A s \in 1..issued' :
            Cardinality({c \in Callbacks :
                cb_req'[c].state = s /\ cb_result'[c] = CallbackReturnedTrue}) <= 1
       /\ \A c \in Callbacks :
            (/\ cb_pc[c] = "redis_get" /\ cb_pc'[c] # "redis_get"
             /\ \E d \in Callbacks \ {c} :
                   cb_req[d].state = cb_req[c].state /\ Succeeded(d))
            => cb_result'[c] = CallbackRaised("Invalid state")]_vars

\* handle_callback calls that were turned away at the state lookup
Rejected(c) ==
    /\ cb_pc[c] = "done"
    /\ cb_result[c] \in {CallbackRaised("Invalid state"), CallbackRaised("Tool name mismatch")}

\* the state lookup of callback c returns in this step
LookupReturns(c) == cb_pc[c] = "redis_get" /\ cb_pc'[c] # "redis_get"

\* C16: once a callback presenting a state token has been rejected, a
\* handle_callback that arrives later with the same token finds no live state
\* for its tool under that token, so it cannot succeed.
C16_RejectedTokenIsDead ==
    [][\A c \in Callbacks :
          (/\ cb_pc[c] = "idle" /\ cb_pc'[c] = "redis_get"
           /\ \E d \in Callbacks \ {c} : cb_req[d].state = cb_req'[c].state /\ Rejected(d))
          => LET entry == redis[cb_req'[c].state]
             IN  ~(/\ entry.present /\ now < entry.expire_at
                   /\ entry.tool_name = cb_req'[c].tool_name)]_vars

\* C17: a callback whose state token is live (within its TTL) but was issued
\* for another tool fails with Tool name mismatch in the step its lookup
\* returns, and that step writes no user and no credential record.
C17_ToolMismatchRejected ==
    [][\A c \in Callbacks :
          LET entry == redis[cb_req[c].state]
          IN  (/\ LookupReturns(c)
               /\ entry.present /\ now < entry.expire_at
               /\ entry.tool_name # cb_req[c].tool_name)
              => /\ cb_pc'[c] = "done"
                 /\ cb_result'[c] = CallbackRaised("Tool name mismatch")
                 /\ UNCHANGED <<users, user_tool_auths>>]_vars

\* C17 witness: a callback was refused for a tool mismatch while the token
\* was still live, and the store holds no record
C17_Witness ==
    \E c \in Callbacks :
        /\ cb_pc[c] = "done"
        /\ cb_result[c] = CallbackRaised("Tool name mismatch")
        /\ redis[cb_req[c].state].present
        /\ now < redis[cb_req[c].state].expire_at
        /\ user_tool_auths = {}

\* C18: generate_auth_url stores the state to expire 600 seconds after the
\* issue, and a callback whose lookup comes more than 600 seconds after the
\* issue fails with Invalid state and writes no user and no credential record.
C18_StateExpires ==
    [][/\ issued' = issued + 1 =>
            (redis'[issued'].present /\ redis'[issued'].expire_at = now + 600)
       /\ \A c \in Callbacks :
            LET entry == redis[cb_req[c].state]
            IN  (/\ LookupReturns(c)
                 /\ entry.present /\ now > (entry.expire_at - oauth_state_ttl) + 600)
                => /\ cb_pc'[c] = "done"
                   /\ cb_result'[c] = CallbackRaised("Invalid state")
                   /\ UNCHANGED <<users, user_tool_auths>>]_vars

\* C18 witness: a callback presented an issued token more than 600 seconds
\* after it was stored and was refused; nothing was stored
C18_Witness ==
    \E c \in Callbacks :
        /\ cb_pc[c] = "done"
        /\ cb_result[c] = CallbackRaised("Invalid state")
        /\ redis[cb_req[c].state].present
        /\ now > redis[cb_req[c].state].expire_at
        /\ user_tool_auths = {}

\* C19: the step in which a handle_callback fails changes no user and no
\* credential record, a failed callback never obtained a token payload, and
\* the credential table changes only in the save of a callback whose
\* exchange gave a payload with access_token and without error.
C19_FailedCallbackWritesNothing ==
    [][/\ \A c \in Callbacks :
            /\ (cb_pc[c] # "done" /\ cb_pc'[c] = "done" /\ cb_result'[c].kind = "raised")
                  => UNCHANGED <<users, user_tool_auths>>
            /\ cb_result[c].kind = "raised" =>
                  (cb_pc[c] = "done" /\ cb_local[c].token_data = {})
       /\ user_tool_auths' # user_tool_auths =>
            \E c \in Callbacks :
                /\ cb_pc[c] = "_save_credentials" /\ cb_pc'[c] = "redis_delete"
                /\ "access_token" \in Keys(cb_local[c].token_data)
                /\ "error" \notin Keys(cb_local[c].token_data)]_vars

\* C19 witness: one callback stored credentials, then another failed at the
\* token endpoint and the record is as the first left it
C19_Witness ==
    \E c, d \in Callbacks :
        /\ Succeeded(c)
        /\ cb_pc[d] = "done" /\ cb_result[d] = CallbackRaised("OAuth error")
        /\ \E row \in user_tool_auths :
              /\ row.is_authenticated
              /\ row.tool_name = cb_req[c].tool_name
              /\ JsonLoads(row.encrypted_credentials.plaintext) = cb_local[c].token_data

\* C20: a callback goes past the exchange only with a payload that has
\* access_token and no error key; one that failed at the exchange holds no
\* payload; so every persisted payload has access_token and no error key.
C20_PersistedPayloadHasToken ==
    /\ \A c \in Callbacks :
          /\ cb_pc[c] \in {"_save_credentials", "redis_delete"} \/ Succeeded(c)
                => /\ "access_token" \in Keys(cb_local[c].token_data)
                   /\ "error" \notin Keys(cb_local[c].token_data)
          /\ cb_result[c] \in {CallbackRaised("OAuth error"),
                               CallbackRaised("No access_token received from OAuth provider")}
                => cb_local[c].token_data = {}
    /\ \A row \in user_tool_auths :
          /\ "access_token" \in Keys(JsonLoads(row.encrypted_credentials.plaintext))
          /\ "error" \notin Keys(JsonLoads(row.encrypted_credentials.plaintext))

\* C20 witness: the provider answered one exchange without access_token and
\* without error, which failed, and another with a token, which was stored
C20_Witness ==
    \E c, d \in Callbacks :
        /\ cb_pc[c] = "done"
        /\ cb_result[c] = CallbackRaised("No access_token received from OAuth provider")
        /\ Succeeded(d)
        /\ user_tool_auths # {}

(***************************************************************************)
(* Properties of the credential store                                      *)
(***************************************************************************)
\* callback c leaves _save_credentials in this step
SaveReturns(c) == cb_pc[c] = "_save_credentials" /\ cb_pc'[c] # "_save_credentials"

\* what get_user_credentials gives for (u, t) right after the step
ReadBack(user_id, tool_name) ==
    GetUserCredentials(users', user_tool_auths', user_id, tool_name)

\* C21 as stated: an OAuth callback whose exchange returned a payload with
\* access_token succeeds, and get_user_credentials then returns that payload.
C21_HappyPathReadsBack ==
    [][\A c \in Callbacks :
          /\ SaveReturns(c) =>
                /\ cb_pc'[c] = "redis_delete"
                /\ ReadBack(cb_local[c].user_id, cb_req[c].tool_name)
                      = [ok |-> TRUE, value |-> cb_local[c].token_data]
          /\ (cb_pc[c] = "redis_delete" /\ cb_pc'[c] # "redis_delete")
                => cb_result'[c] = CallbackReturnedTrue]_vars

\* the (u, t) record that callback c is about to write is not switched off
NotDeactivated(c) ==
    \A r \in AuthRowsOf(user_tool_auths, GetOrCreateUser(users, cb_local[c].user_id).id,
                        cb_req[c].tool_name) : r.is_active

\* C21: an OAuth callback whose exchange returned a payload P with access_token
\* succeeds; get_user_credentials then returns exactly P provided the user's
\* record for the tool is new or was not deactivated.
C21_HappyPathReadsBackIfActive ==
    [][\A c \in Callbacks :
          /\ SaveReturns(c) =>
                /\ cb_pc'[c] = "redis_delete"
                /\ NotDeactivated(c) =>
                      ReadBack(cb_local[c].user_id, cb_req[c].tool_name)
                         = [ok |-> TRUE, value |-> cb_local[c].token_data]
          /\ (cb_pc[c] = "redis_delete" /\ cb_pc'[c] # "redis_delete")
                => cb_result'[c] = CallbackReturnedTrue]_vars

C21_Witness ==
    \E c \in Callbacks :
        /\ Succeeded(c)
        /\ GetUserCredentials(users, user_tool_auths, cb_local[c].user_id, cb_req[c].tool_name)
              = [ok |-> TRUE, value |-> TokenPayload("tok3")]

\* the user of the store call made in this step, and that user's records
\* for the tool of the call before and after it
StoreStep(op) == store_call'.op = op
StoreUser == GetOrCreateUser(users, store_call'.user_id)
RowsBefore == AuthRowsOf(user_tool_auths, StoreUser.id, store_call'.tool_name)
RowsAfter == AuthRowsOf(user_tool_auths', StoreUser.id, store_call'.tool_name)

\* the records of the (user, tool) of the last store call
CallRows ==
    AuthRowsOf(user_tool_auths, GetOrCreateUser(users, store_call.user_id).id,
               store_call.tool_name)

\* C22: get_user_credentials returns the decrypted payload only when a record
\* for (u, t) exists that is authenticated and active; with no record, an
\* unauthenticated or a deactivated one it returns empty, and writes nothing.
C22_ActiveOnlyVisibility ==
    [][StoreStep("get_user_credentials") =>
          LET visible == {r \in RowsBefore : r.is_authenticated /\ r.is_active}
          IN  /\ visible = {} => store_call'.ret = ReturnsNone
              /\ store_call'.ret.ok =>
                    \E r \in visible :
                        store_call'.ret.value = JsonLoads(r.encrypted_credentials.plaintext)
              /\ \A r \in visible :
                    r.encrypted_credentials.key = _generate_key(ServerSecret, StoreUser.id)
                       => store_call'.ret.ok
              /\ UNCHANGED user_tool_auths]_vars

C22_Witness ==
    /\ store_call.op = "get_user_credentials"
    /\ store_call.ret = ReturnsNone
    /\ \E r \in CallRows : r.is_authenticated /\ ~r.is_active

\* C23: whatever the interleaving of credential writes, there is at most one
\* credential record per (user, tool) pair.
C23_OneRecordPerPair ==
    \A r1, r2 \in user_tool_auths :
        (r1.user_id = r2.user_id /\ r1.tool_name = r2.tool_name) => r1 = r2

\* the elements of a stored list
Elems(seq) == {seq[i] : i \in 1..Len(seq)}

\* C24: when two concurrent set_action_disabled_status calls that disable
\* different actions of the same record have both returned True, the record's
\* disabled_actions holds both actions.
C24_NoLostUpdate ==
    \A v, w \in Writers :
        (/\ v # w
         /\ writers[v].op = "set_action_disabled_status"
         /\ writers[w].op = "set_action_disabled_status"
         /\ writers[v].pc = "done" /\ writers[v].ret = "True" /\ writers[v].flag
         /\ writers[w].pc = "done" /\ writers[w].ret = "True" /\ writers[w].flag
         /\ writers[v].action # writers[w].action
         /\ writers[v].loaded.id = writers[w].loaded.id)
        => {writers[v].action, writers[w].action}
              \subseteq Elems(RowById(user_tool_auths, writers[v].loaded.id).disabled_actions)

NoDuplicates(seq) == Cardinality(Elems(seq)) = Len(seq)

\* C25: disabled_actions never holds an action twice; a set_action_disabled_status
\* call for action a leaves a in the list exactly when is_disabled was true and
\* leaves every other action as it was; disabling a disabled action or enabling
\* an enabled one leaves the list unchanged; no other call but a disconnect
\* touches the list.
C25_DisabledActionsIsASet ==
    [][/\ \A r \in user_tool_auths' : NoDuplicates(r.disabled_actions)
       /\ StoreStep("set_action_disabled_status") =>
             LET call == store_call'
                 target == {r \in RowsBefore : r.is_authenticated}
             IN  IF target = {}
                 THEN ~call.ret.ok /\ UNCHANGED user_tool_auths
                 ELSE /\ call.ret.ok
                      /\ \A r \in target : \E n \in user_tool_auths' :
                            /\ n.id = r.id
                            /\ Elems(n.disabled_actions) =
                                  IF call.flag
                                  THEN Elems(r.disabled_actions) \cup {call.action}
                                  ELSE Elems(r.disabled_actions) \ {call.action}
                            /\ ((call.action \in Elems(r.disabled_actions)) = call.flag)
                                  => n.disabled_actions = r.disabled_actions
       /\ store_call'.op \notin {"set_action_disabled_status", "disconnect_tool"} =>
             \A r \in user_tool_auths : \E n \in user_tool_auths' :
                 n.id = r.id /\ n.disabled_actions = r.disabled_actions]_vars

C25_Witness ==
    /\ store_call.op = "set_action_disabled_status"
    /\ store_call.ret.ok
    /\ ~store_call.flag
    /\ \E r \in CallRows :
          /\ store_call.action \notin Elems(r.disabled_actions)
          /\ Len(r.disabled_actions) = Cardinality(StoreActions) - 1

\* C26: the upsert behind register_manual_auth inserts, for a (user, tool) with
\* no record, one record that is authenticated, active and has no disabled
\* actions; with a record it updates that record in place: new ciphertext,
\* is_authenticated true, last_auth_at stamped, everything else kept.
C26_Upsert ==
    [][StoreStep("register_manual_auth") =>
          LET enc == encrypt_credentials(StoreUser.id,
                                         ManualCredentials(store_call'.credentials))
          IN  /\ {r \in user_tool_auths' : r \notin RowsAfter}
                    = {r \in user_tool_auths : r \notin RowsBefore}
              /\ IF RowsBefore = {}
                 THEN \E n \in RowsAfter :
                         /\ RowsAfter = {n}
                         /\ n.id \notin {r.id : r \in user_tool_auths}
                         /\ n.encrypted_credentials = enc
                         /\ n.is_authenticated /\ n.is_active
                         /\ n.disabled_actions = <<>>
                 ELSE RowsAfter =
                         {[r EXCEPT !.encrypted_credentials = enc,
                                    !.is_authenticated = TRUE,
                                    !.last_auth_at = now] : r \in RowsBefore}]_vars

C26_Witness ==
    /\ store_call.op = "register_manual_auth"
    /\ \E r \in CallRows :
          /\ r.last_auth_at = now
          /\ r.is_authenticated /\ ~r.is_active
          /\ r.disabled_actions # <<>>
          /\ JsonLoads(r.encrypted_credentials.plaintext) = ManualCredentials(store_call.credentials)

\* C27: cleanup_invalid_credentials returns true exactly when the record's
\* decrypted payload has an "error" key and no "access_token" key; it then
\* sets is_authenticated to false, keeps the record, and get_user_credentials
\* returns empty; otherwise it returns false and changes nothing.
C27_CleanupDemotesEnvelope ==
    [][StoreStep("cleanup_invalid_credentials") =>
          LET envelope ==
                 {r \in RowsBefore :
                     LET dec == decrypt_credentials(StoreUser.id, r.encrypted_credentials)
                     IN  /\ dec.ok
                         /\ "error" \in Keys(dec.value)
                         /\ "access_token" \notin Keys(dec.value)}
          IN  /\ store_call'.ret.ok = (envelope # {})
              /\ {r.id : r \in user_tool_auths'} = {r.id : r \in user_tool_auths}
              /\ IF store_call'.ret.ok
                 THEN /\ user_tool_auths' =
                            (user_tool_auths \ envelope) \cup
                            {[r EXCEPT !.is_authenticated = FALSE] : r \in envelope}
                      /\ ReadBack(store_call'.user_id, store_call'.tool_name) = ReturnsNone
                 ELSE UNCHANGED user_tool_auths]_vars

C27_Witness ==
    /\ store_call.op = "cleanup_invalid_credentials"
    /\ store_call.ret.ok
    /\ \E r \in CallRows :
          /\ ~r.is_authenticated
          /\ "error" \in Keys(JsonLoads(r.encrypted_credentials.plaintext))

\* C28: set_tool_active_status returns false and changes no record when (u, t)
\* has no authenticated record; otherwise it returns true and sets is_active to
\* the given value, leaving ciphertext, is_authenticated and disabled_actions.
C28_SetActiveOnlyIfAuthenticated ==
    [][StoreStep("set_tool_active_status") =>
          LET target == {r \in RowsBefore : r.is_authenticated}
          IN  IF target = {}
              THEN store_call'.ret = ReturnsBool(FALSE) /\ UNCHANGED user_tool_auths
              ELSE /\ store_call'.ret = ReturnsBool(TRUE)
                   /\ user_tool_auths' =
                         (user_tool_auths \ target) \cup
                         {[r EXCEPT !.is_active = store_call'.flag] : r \in target}]_vars

C28_Witness ==
    /\ store_call.op = "set_tool_active_status"
    /\ store_call.ret = ReturnsBool(FALSE)
    /\ \E r \in CallRows :
          /\ ~r.is_authenticated
          /\ IsErrorEnvelope(JsonLoads(r.encrypted_credentials.plaintext))

\* C29: disconnect_tool deletes the (u, t) record and returns true, or returns
\* false and changes nothing when there is none; get_user_credentials then
\* returns empty, no record for (u, t) appears until a new authentication, and
\* that authentication creates a record that is active with no disabled actions.
C29_DisconnectDeletes ==
    [][/\ StoreStep("disconnect_tool") =>
             /\ store_call'.ret = ReturnsBool(RowsBefore # {})
             /\ user_tool_auths' = user_tool_auths \ RowsBefore
             /\ ReadBack(store_call'.user_id, store_call'.tool_name) = ReturnsNone
       /\ \A t \in Tools :
             (/\ AuthRowsOf(user_tool_auths, StoreUser.id, t) = {}
              /\ ~(StoreStep("register_manual_auth") /\ store_call'.tool_name = t))
             => /\ AuthRowsOf(user_tool_auths', StoreUser.id, t) = {}
                /\ ReadBack(store_call'.user_id, t) = ReturnsNone
       /\ (StoreStep("register_manual_auth") /\ RowsBefore = {}) =>
             /\ RowsAfter # {}
             /\ \A n \in RowsAfter : n.is_active /\ n.disabled_actions = <<>>]_vars

C29_Witness ==
    /\ store_call.op = "disconnect_tool"
    /\ store_call.ret = ReturnsBool(TRUE)
    /\ CallRows = {}

\* C30: a stored credential that fails to decrypt makes get_user_credentials
\* return empty; execute_tool ends such a call as not authenticated without
\* starting a child; the record stays in the table as it was.
C30_DecryptFailureIsNotAuthenticated ==
    /\ StaleRow \in user_tool_auths
    /\ GetUserCredentials(users, user_tool_auths, "u2", "slack") = ReturnsNone
    /\ \A p \in Calls :
          (req[p].user_id = "u2" /\ req[p].tool_name = "slack") =>
             /\ pc[p] \in {"get_user_credentials", "cleanup_invalid_credentials", "done"}
             /\ pc[p] # "get_user_credentials" => credentials[p] = ReturnsNone
             /\ child[p] = "none"
             /\ pc[p] = "done" =>
                   outcome[p] \in {ServerBusy(req[p]),
                                   Raised(req[p], <<"not authenticated", "u2", "slack">>)}

C30_Witness ==
    \E p \in Calls :
        /\ pc[p] = "done"
        /\ outcome[p] = Raised(req[p], <<"not authenticated", "u2", "slack">>)
        /\ StaleRow \in user_tool_auths

\* C31: a payload sealed for a user id and opened under the same id comes
\* back as it was; opened under another id the decryption fails with an
\* error and hands out no data.
C31_DecryptInvertsEncrypt ==
    (fn_call.op = "decrypt_credentials" /\ fn_call.done) =>
       IF fn_call.args.user_id = fn_call.args.sealed_for
       THEN fn_call.ret = [ok |-> TRUE, value |-> fn_call.args.credentials]
       ELSE fn_call.ret = [ok |-> FALSE, value |-> EmptyDict]

C31_Witness ==
    /\ fn_call.op = "decrypt_credentials" /\ fn_call.done
    /\ fn_call.args.user_id # fn_call.args.sealed_for
    /\ Field("access_token", "null", "") \in fn_call.args.credentials
    /\ Entry("Api_Key", "7") \in fn_call.args.credentials
    /\ ~fn_call.ret.ok

\* the fields of a payload that _prepare_tool_env turns into variables
StringFields(creds) == {e \in creds : e.t = "str" /\ e.k \notin {"auth_type", "registered_at"}}

C34_ResultFromExit ==
    (fn_call.op = "execute_tool.result" /\ fn_call.done) =>
       LET ex == fn_call.args.exit
           res == fn_call.ret
       IN  /\ res.tool_name = fn_call.args.request.tool_name
           /\ res.action = fn_call.args.request.action
           /\ (ex.returncode = 0 /\ ex.stdout \in JsonTexts) =>
                 (res.success /\ res.result = <<"json", ex.stdout>>)
           /\ (ex.returncode = 0 /\ ex.stdout \notin JsonTexts) =>
                 (res.success /\ res.result = <<"text", ex.stdout>>)
           /\ ex.returncode # 0 =>
                 (~res.success
                  /\ res.error = <<IF ex.stderr # "" THEN ex.stderr ELSE ex.stdout>>)

\* C35: whatever is submitted, an auth_type field included, the payload that
\* process_auth_response of the form and of the R2R handler returns has
\* auth_type "manual" and every other submitted field as submitted.
C35_ManualTagAndPassThrough ==
    (fn_call.op = "process_auth_response" /\ fn_call.done) =>
       /\ Entry("auth_type", "manual") \in fn_call.ret
       /\ \A e \in fn_call.args.auth_data : e.k # "auth_type" => e \in fn_call.ret

\* the values of a payload's fields
Values(creds) == {e.v : e \in creds}

\* C32: the server's own environment is never changed; the environment of
\* every child is the server's environment plus the variables made from the
\* credentials of its own call; a value of another call's credentials is in
\* it only if it is a value of its own credentials too.
C32_EnvironmentPerCall ==
    /\ os_environ = ServerEnviron
    /\ \A p \in Calls :
          child[p] # "none" =>
             /\ \E env \in ToolEnvs(credentials[p].value) :
                   child_env[p] = DictUpdate(ServerEnviron, env)
             /\ \A q \in Calls \ {p} :
                   \A var \in child_env[p] \ ServerEnviron :
                      var.v \in Values(credentials[q].value)
                         => var.v \in Values(credentials[p].value)

C32_Witness ==
    \E p \in Calls, q \in Calls :
        /\ child[p] = "running" /\ child[q] = "running"
        /\ req[p].user_id = "u1" /\ req[q].user_id = "u2"
        /\ Entry("ACCESS_TOKEN", "tok1") \in child_env[p]
        /\ Entry("API_KEY", "xyz") \in child_env[q]
        /\ ~Has(child_env[q], "ACCESS_TOKEN")

\* C36: whatever the interleaving of the credential operations that
\* reference a new external id, the users table holds at most one row for
\* it, a user once looked up has exactly one row, and every operation that
\* has ended has ended without an error.
C36_OneUserNoError ==
    /\ \A external_id \in Users : Cardinality(UsersWith(users, external_id)) <= 1
    /\ \A w \in Writers :
          /\ writers[w].pc \in {"select", "commit"} =>
                Cardinality(UsersWith(users, writers[w].user_id)) = 1
          /\ writers[w].pc = "done" =>
                /\ writers[w].ret = "True"
                /\ Cardinality(UsersWith(users, writers[w].user_id)) = 1

\* C37: when a call starts its child, the record of its user and tool is
\* there and active: no deactivation or disconnect that completed before the
\* call took its semaphore slot is ignored.
C37_NoChildAfterRevoke ==
    [][\A p \in Calls :
          (child[p] = "none" /\ child'[p] = "running") =>
             \E row \in AuthRowsOf(user_tool_auths,
                                   GetOrCreateUser(users, req[p].user_id).id,
                                   req[p].tool_name) :
                row.is_authenticated /\ row.is_active]_vars

\* C38: a re-authentication of an existing record keeps its is_active and its
\* disabled_actions; if the record was deactivated, get_user_credentials
\* returns empty after the re-authentication; and a record that is inactive
\* becomes active only by set_tool_active_status(true).
C38_ReauthKeepsSwitches ==
    [][/\ (StoreStep("register_manual_auth") /\ RowsBefore # {}) =>
             /\ \A r \in RowsBefore :
                   \E n \in RowsAfter :
                      /\ n.id = r.id
                      /\ n.is_active = r.is_active
                      /\ n.disabled_actions = r.disabled_actions
             /\ (\A r \in RowsBefore : ~r.is_active) =>
                   ReadBack(store_call'.user_id, store_call'.tool_name) = ReturnsNone
       /\ \A r \in user_tool_auths, n \in user_tool_auths' :
             (n.id = r.id /\ ~r.is_active /\ n.is_active) =>
                (StoreStep("set_tool_active_status") /\ store_call'.flag)]_vars

C38_Witness ==
    /\ store_call.op = "register_manual_auth"
    /\ store_call.credentials = {Entry("api_key", "k1")}
    /\ GetUserCredentials(users, user_tool_auths, store_call.user_id, store_call.tool_name)
          = ReturnsNone
    /\ \E r \in CallRows :
          /\ r.last_auth_at = now
          /\ r.is_authenticated /\ ~r.is_active
          /\ Len(r.disabled_actions) = 1

====
